---- MODULE Spec2Model ----
(***************************************************************************)
(* Model of the calendar-mcp server (src/unnamed/part_000): the tool       *)
(* dispatcher, the operation functions, the script builders and the        *)
(* response parser.  The request handlers are async functions without a    *)
(* lock or a queue.  A handler runs without interruption from its start to *)
(* `await handleToolCall(...)`, where it yields: handleToolCall has thrown *)
(* or returned, or it waits for the osascript process that execAsync has   *)
(* started in that turn.  Other requests are handled while a call is at    *)
(* its await and while a response waits for the transport.  The osascript  *)
(* process of a call runs beside the server and beside the processes of    *)
(* the other calls: it sends the Calendar application one Apple event per  *)
(* statement of its script, and between two of its statements the          *)
(* statements of the other processes act on the same calendars.  The       *)
(* handler resumes in a later turn, when the process has ended.            *)
(*                                                                         *)
(* Conventions.                                                            *)
(*  - A JavaScript value is a record [t, v]: t is the typeof tag.          *)
(*  - An async function f(..., out) is evaluated with out = Pending up to  *)
(*    its await (it then yields Await(script)) and again with the outcome  *)
(*    of the osascript run once that has settled.  Its result is a step:   *)
(*    Return(value), Throw(message) or Await(script).                      *)
(*  - Instants are whole seconds since the Unix epoch; the process time    *)
(*    zone is UTC.  A reading of the clock is the second it falls in.      *)
(*  - The calls in flight are held in slots; phase, request, script,       *)
(*    submitted, process, osascript, adapter, response, before, effect and *)
(*    alone are functions of the slot.                                     *)
(*  - Argument values have the types the tool schemas declare.             *)
(***************************************************************************)
EXTENDS Integers, Sequences, FiniteSets, TLC

\* Of the call in a slot: phase is Idle, Validating (the handler is at its
\* await and handleToolCall has settled without a script), Executing (its
\* osascript process was started) or Responding; request is request.params
\* with the readings of the clock; script is the script the call submitted
\* and submitted the number of its submissions; process is None, Running or
\* Ended, as its osascript process is; osascript is the statement the
\* process is at, with the variables of its script; adapter is the outcome
\* of the process once it has ended; response is the envelope the call
\* returns.  before is the store as it was when the process was started,
\* effect the store as it was when the process ended, and alone tells that
\* no other process has changed the store in between.  listed is the
\* response of the list-tools handler, store what the calendars hold, and
\* changes counts the calls that have submitted a script changing the store.
VARIABLES phase, request, script, submitted, process, osascript, adapter, response, listed,
          store, before, effect, alone, changes

vars ==
  <<phase, request, script, submitted, process, osascript, adapter, response, listed, store,
    before, effect, alone, changes>>

(***************************************************************************)
(* Bounds of the model.                                                    *)
(***************************************************************************)
\* The events of an event list that was not printed from the store.
MaxEvents == 3

\* The calls in flight at one time.
MaxInFlight == 2

\* The calls of one run of the server that submit a script changing the store.
MaxChanges == 2

(***************************************************************************)
(* JavaScript values.                                                      *)
(***************************************************************************)
Undefined == [t |-> "undefined", v |-> ""]
Str(s) == [t |-> "string", v |-> s]
Num(n) == [t |-> "number", v |-> n]
Bool(b) == [t |-> "boolean", v |-> b]

\* ToBoolean: undefined, "", 0 and false are falsy.
Truthy(x) ==
  CASE x.t = "undefined" -> FALSE
    [] x.t = "string" -> x.v # ""
    [] x.t = "number" -> x.v # 0
    [] x.t = "boolean" -> x.v

\* `${x}` for a string or undefined value.
TemplateStr(x) ==
  CASE x.t = "undefined" -> "undefined"
    [] x.t = "string" -> x.v
    [] x.t = "boolean" -> IF x.v THEN "true" ELSE "false"

(***************************************************************************)
(* Strings by their characters.  A text is a sequence of pieces: a quote,  *)
(* a backslash, a line feed and an apostrophe are pieces of their own, the *)
(* characters between them form one piece.                                 *)
(***************************************************************************)
\* The pieces of a text, joined into the string.
Join(pieces) ==
  LET upTo[k \in 0..Len(pieces)] == IF k = 0 THEN "" ELSE upTo[k - 1] \o pieces[k]
  IN upTo[Len(pieces)]

\* text.replace(/<ch>/g, <by>): every piece ch is replaced by the pieces by.
replaceAll(pieces, ch, by) ==
  LET upTo[k \in 0..Len(pieces)] ==
        IF k = 0 THEN <<>>
        ELSE upTo[k - 1] \o (IF pieces[k] = ch THEN by ELSE << pieces[k] >>)
  IN upTo[Len(pieces)]

\* The strings callers give that hold a quote, a backslash, a line feed or
\* an apostrophe.
CallerTexts ==
  { << "Bob ", "\"", "B", "\"" >>, << "C:", "\\" >>, << "Line 1", "\n", "Line 2" >>,
    << "Bob", "'", "s party" >>, << "it", "'", "s" >> }

QuotedTexts == { replaceAll(t, "\"", << "\\", "\"" >>) : t \in CallerTexts }

PiecesTable ==
  [ s \in { Join(t) : t \in CallerTexts \cup QuotedTexts } |->
      CHOOSE t \in CallerTexts \cup QuotedTexts : Join(t) = s ]

\* The pieces of a string; every other string of the model is one piece.
Pieces(s) ==
  IF s = "" THEN <<>>
  ELSE IF s \in DOMAIN PiecesTable THEN PiecesTable[s]
  ELSE << s >>

\* s.replace(/"/g, '\\"')
replaceQuotes(s) == Join(replaceAll(Pieces(s), "\"", << "\\", "\"" >>))

\* m.includes(needle): m = p needle s for some prefix p and suffix s.
Affixes ==
  { "", "execution error: ", " to send Apple events to Calendar. (-1743)",
    "execution error: Calendar got an error: ",
    "team ", "annual ", " room", " point: lobby", " 1\nline 2" }

Includes(m, needle) == \E p \in Affixes, s \in Affixes : m = p \o needle \o s

\* message.includes(needle) for a message given by its pieces; no needle of
\* the model holds a character that is a piece of its own.
includes(message, needle) == \E i \in 1..Len(message) : Includes(message[i], needle)

(***************************************************************************)
(* Steps of an async function.                                             *)
(***************************************************************************)
Pending == [settled |-> FALSE]
Return(value) == [k |-> "return", value |-> value]
Throw(message) == [k |-> "throw", message |-> message]
Await(s) == [k |-> "await", script |-> s]

NoScript == [op |-> "none"]

(***************************************************************************)
(* The osascript run: its standard output or its failure.                  *)
(***************************************************************************)
EmptyOut == [kind |-> "empty"]
BlankOut == [kind |-> "blank"]
TextOut(s) == [kind |-> "text", text |-> s]
ArrayOut(items) == [kind |-> "array", items |-> items]

\* The settled promise of execAsync: resolved with the standard output, or
\* rejected with an error whose message is given by its pieces.  class names
\* the kind of the failure; the program does not see it.
Succeeds(stdout) == [settled |-> TRUE, ok |-> TRUE, stdout |-> stdout]
Fails(class, message) ==
  [settled |-> TRUE, ok |-> FALSE, class |-> class, message |-> message]

\* String.prototype.trim: output that is only white space becomes empty.
Trim(stdout) == IF stdout.kind = "blank" THEN EmptyOut ELSE stdout

AccessDeniedMessage ==
  "Calendar access denied. Grant permission in System Settings > Privacy & Security > Calendars"

\* runAppleScript running the script again when the run has failed.
runAppleScriptRetrying(s, out) ==
  IF ~out.settled THEN Await(s)
  ELSE IF out.ok THEN Return(Trim(out.stdout))
  ELSE Await(s)

runAppleScript(s, out) ==
  IF ~out.settled THEN Await(s)
  ELSE IF out.ok THEN Return(Trim(out.stdout))
  ELSE IF includes(out.message, "Not authorized") THEN Throw(AccessDeniedMessage)
  ELSE Throw(Join(out.message))

\* JSON values: an array, a string or an object.
JArray(items) == [j |-> "array", items |-> items]
JString(s) == [j |-> "string", s |-> s]
JObject(fields) == [j |-> "object", fields |-> fields]

\* runAppleScriptJSON handing an empty output on as the text it is.
parseResultEmptyAsText(r) ==
  IF r.k # "return" THEN r
  ELSE IF r.value.kind = "array" THEN Return(JArray(r.value.items))
  ELSE Return(JString(IF r.value.kind = "empty" THEN "" ELSE r.value.text))

\* if (!result) return []; try { return JSON.parse(result) } catch { return result }
\* An output that is not an array is text that is not JSON.
parseResult(r) ==
  IF r.k # "return" THEN r
  ELSE IF r.value.kind = "empty" THEN Return(JArray(<<>>))
  ELSE IF r.value.kind = "array" THEN Return(JArray(r.value.items))
  ELSE Return(JString(r.value.text))

runAppleScriptJSON(s, out) == parseResult(runAppleScript(s, out))

(***************************************************************************)
(* Dates.                                                                  *)
(***************************************************************************)
InvalidDate == [valid |-> FALSE, time |-> 0]
DateOf(t) == [valid |-> TRUE, time |-> t]
Null == [null |-> TRUE]

\* The clock readings of new Date() and Date.now().
NowValues == { 1736935200, 1736978400 }

\* The readings of the clock one call makes, in order: a later reading falls
\* in the second of the one before it or in the next second.
Clocks(n) ==
  CASE n = 0 -> { <<>> }
    [] n = 1 -> { << t >> : t \in NowValues }
    [] n = 2 -> { << t, t + d >> : t \in NowValues, d \in { 0, 1 } }

Readings == UNION { { t, t + 1 } : t \in NowValues }

Digit(d) ==
  CASE d = 0 -> "0" [] d = 1 -> "1" [] d = 2 -> "2" [] d = 3 -> "3" [] d = 4 -> "4"
    [] d = 5 -> "5" [] d = 6 -> "6" [] d = 7 -> "7" [] d = 8 -> "8" [] d = 9 -> "9"

RECURSIVE Decimal(_)
Decimal(n) == IF n < 10 THEN Digit(n) ELSE Decimal(n \div 10) \o Digit(n % 10)

Pad2(n) == IF n < 10 THEN "0" \o Digit(n) ELSE Decimal(n)

\* The proleptic Gregorian date of an instant, computed from the day number
\* z counted from 0000-03-01: [year, month, day, hour, minute, second].
CivilOfMonth(m, d, y, secs) ==
  [ year |-> y + (IF m <= 2 THEN 1 ELSE 0), month |-> m, day |-> d,
    hour |-> secs \div 3600, minute |-> (secs % 3600) \div 60, second |-> secs % 60 ]

CivilOfMp(mp, doy, y, secs) ==
  CivilOfMonth(IF mp < 10 THEN mp + 3 ELSE mp - 9, doy - (153 * mp + 2) \div 5 + 1, y, secs)

CivilOfDoy(doy, y, secs) == CivilOfMp((5 * doy + 2) \div 153, doy, y, secs)

CivilOfYoe(yoe, doe, era, secs) ==
  CivilOfDoy(doe - (365 * yoe + yoe \div 4 - yoe \div 100), yoe + era * 400, secs)

CivilOfDoe(doe, era, secs) ==
  CivilOfYoe((doe - doe \div 1460 + doe \div 36524 - doe \div 146096) \div 365, doe, era, secs)

CivilOfEra(era, z, secs) == CivilOfDoe(z - era * 146097, era, secs)

CivilOfDay(z, secs) == CivilOfEra(z \div 146097, z, secs)

Civil(t) == CivilOfDay(t \div 86400 + 719468, t % 86400)

MonthName(m) ==
  CASE m = 1 -> "January" [] m = 2 -> "February" [] m = 3 -> "March" [] m = 4 -> "April"
    [] m = 5 -> "May" [] m = 6 -> "June" [] m = 7 -> "July" [] m = 8 -> "August"
    [] m = 9 -> "September" [] m = 10 -> "October" [] m = 11 -> "November"
    [] m = 12 -> "December"

\* Date.prototype.toISOString of a valid date.
IsoText(c) ==
  Decimal(c.year) \o "-" \o Pad2(c.month) \o "-" \o Pad2(c.day) \o "T" \o Pad2(c.hour)
    \o ":" \o Pad2(c.minute) \o ":" \o Pad2(c.second) \o ".000Z"

toISOString(date) == IsoText(Civil(date.time))

\* The date strings of the model that new Date() parses, with their instants:
\* date-only and date-time ISO forms as callers give them, and the zone-less
\* date-time form the script prints for an event (class isot).
KnownDates ==
  [ s \in { "2025-01-15", "2025-01-15T10:00:00Z", "2025-01-15T10:00:00.000Z",
            "2025-02-01T00:00:00Z", "2025-01-15T10:00:00", "2025-01-15T11:00:00",
            "2025-01-15T12:00:00", "2025-01-16T09:00:00", "2025-06-01T09:00:00",
            "2026-03-01T09:00:00" } |->
      CASE s = "2025-01-15" -> 1736899200
        [] s = "2025-01-15T10:00:00Z" -> 1736935200
        [] s = "2025-01-15T10:00:00.000Z" -> 1736935200
        [] s = "2025-02-01T00:00:00Z" -> 1738368000
        [] s = "2025-01-15T10:00:00" -> 1736935200
        [] s = "2025-01-15T11:00:00" -> 1736938800
        [] s = "2025-01-15T12:00:00" -> 1736942400
        [] s = "2025-01-16T09:00:00" -> 1737018000
        [] s = "2025-06-01T09:00:00" -> 1748768400
        [] s = "2026-03-01T09:00:00" -> 1772355600 ]

\* The instants whose toISOString form the program itself produces and parses
\* again (getTodayEvents, getUpcomingEvents).
DaysValues == { 0, 3, 7 }

IsoInstants ==
  { KnownDates[s] : s \in DOMAIN KnownDates }
    \cup UNION { { now - (now % 86400), now - (now % 86400) + 86400, now }
                   \cup { now + d * 86400 : d \in DaysValues } : now \in NowValues }

IsoTable == [ t \in IsoInstants |-> toISOString(DateOf(t)) ]

\* new Date(s): the instant of a date string, or an invalid date.
NewDate(s) ==
  IF s \in DOMAIN KnownDates THEN DateOf(KnownDates[s])
  ELSE IF \E t \in IsoInstants : IsoTable[t] = s
       THEN DateOf(CHOOSE t \in IsoInstants : IsoTable[t] = s)
       ELSE InvalidDate

\* toLocaleString("en-US", {month: "long", day: "numeric", year: "numeric",
\*   hour: "numeric", minute: "2-digit", second: "2-digit", hour12: true})
LocaleText(c) ==
  MonthName(c.month) \o " " \o Decimal(c.day) \o ", " \o Decimal(c.year) \o " at "
    \o Decimal(IF c.hour % 12 = 0 THEN 12 ELSE c.hour % 12) \o ":" \o Pad2(c.minute)
    \o ":" \o Pad2(c.second) \o (IF c.hour < 12 THEN " AM" ELSE " PM")

formatDateForAppleScript(date) == LocaleText(Civil(date.time))

\* parseDate returning the date it made, valid or not.
dateAsMade(date) == date

\* isNaN(date.getTime()) ? null : date
nullIfInvalid(date) == IF ~date.valid THEN Null ELSE date

parseDate(dateStr) == nullIfInvalid(NewDate(dateStr))

\* isNaN(date.getTime()) ? "" : date.toISOString()
isoOrEmpty(date) == IF ~date.valid THEN "" ELSE toISOString(date)

\* formatISODate rendering whatever new Date makes of the string.
formatISODateUnchecked(dateStr) == toISOString(NewDate(dateStr))

formatISODate(dateStr) ==
  IF dateStr = "" \/ dateStr = "missing value" THEN "" ELSE isoOrEmpty(NewDate(dateStr))

getDateRange(startDate, endDate) ==
  [start |-> formatDateForAppleScript(startDate), end |-> formatDateForAppleScript(endDate)]

(***************************************************************************)
(* Array.prototype.sort as the runtime performs it on an array shorter     *)
(* than 64 elements: the leading run is found (and reversed when strictly  *)
(* descending), then the rest is inserted by binary insertion.  A          *)
(* comparator result of NaN counts as 0.                                   *)
(***************************************************************************)
NaN == [nan |-> TRUE, n |-> 0]
Number(n) == [nan |-> FALSE, n |-> n]

\* Date.prototype.getTime
getTime(d) == IF d.valid THEN Number(d.time) ELSE NaN

\* x - y on numbers
Minus(x, y) == IF x.nan \/ y.nan THEN NaN ELSE Number(x.n - y.n)

\* (a, b) => new Date(a.startDate).getTime() - new Date(b.startDate).getTime()
compareStartDate(a, b) ==
  Minus(getTime(NewDate(a.startDate)), getTime(NewDate(b.startDate)))

\* The comparator as the sort calls it: NaN counts as 0.
NaNToZero(v) == IF v.nan THEN 0 ELSE v.n

SortCompare(a, b) == NaNToZero(compareStartDate(a, b))

Reverse(arr) == [ i \in 1..Len(arr) |-> arr[Len(arr) + 1 - i] ]

\* The length of the leading run: the scan stops at the first element that
\* breaks the direction of the run.
FirstBreak(breaks, n) ==
  IF breaks = {} THEN n
  ELSE (CHOOSE idx \in breaks : \A other \in breaks : idx <= other) - 1

RunEnd(arr, isDescending) ==
  FirstBreak({ idx \in 3..Len(arr) :
                 \/ isDescending /\ SortCompare(arr[idx], arr[idx - 1]) >= 0
                 \/ ~isDescending /\ SortCompare(arr[idx], arr[idx - 1]) < 0 },
             Len(arr))

MakeRun(arr, isDescending, runLength) ==
  [ arr |-> IF isDescending
              THEN Reverse(SubSeq(arr, 1, runLength)) \o SubSeq(arr, runLength + 1, Len(arr))
              ELSE arr,
    runLength |-> runLength ]

CountRun(arr, isDescending) == MakeRun(arr, isDescending, RunEnd(arr, isDescending))

CountAndMakeRun(arr) == CountRun(arr, SortCompare(arr[2], arr[1]) < 0)

\* The insertion point of pivot among the first `start` elements; left and
\* right count the elements before the position, as in the runtime.
BinarySearch(arr, pivot, start) ==
  LET search[left \in 0..start, right \in 0..start] ==
        IF left >= right THEN left
        ELSE IF SortCompare(pivot, arr[left + ((right - left) \div 2) + 1]) < 0
             THEN search[left, left + ((right - left) \div 2)]
             ELSE search[left + ((right - left) \div 2) + 1, right]
  IN search[0, start]

InsertAt(arr, start, pivot, left) ==
  SubSeq(arr, 1, left) \o <<pivot>> \o SubSeq(arr, left + 1, start)
    \o SubSeq(arr, start + 2, Len(arr))

\* One step of the insertion: the element at index `start` (counted from 0)
\* is moved to its insertion point.
InsertPivot(arr, start) ==
  InsertAt(arr, start, arr[start + 1], BinarySearch(arr, arr[start + 1], start))

BinaryInsertionSort(arr, startArg) ==
  LET sorted[start \in startArg..Len(arr)] ==
        IF start = startArg THEN arr ELSE InsertPivot(sorted[start - 1], start - 1)
  IN sorted[Len(arr)]

SortRun(run) == BinaryInsertionSort(run.arr, run.runLength)

ArraySort(arr) == IF Len(arr) < 2 THEN arr ELSE SortRun(CountAndMakeRun(arr))

\* events.map((e) => ({...e, startDate: formatISODate(..), endDate: formatISODate(..)}))
normalizeDates(events) ==
  [ i \in 1..Len(events) |->
      [ events[i] EXCEPT !.startDate = formatISODate(events[i].startDate),
                         !.endDate = formatISODate(events[i].endDate) ] ]

(***************************************************************************)
(* Operation functions.  Each builds its script (a record of the values    *)
(* interpolated into the script text) and runs it.                         *)
(***************************************************************************)
\* checkPermissions without its catch: the failure of the probe is thrown on.
permissionStatusUncaught(r) ==
  IF r.k = "return"
    THEN Return(JObject([calendar |-> TRUE, details |-> <<"Calendar: accessible">>]))
    ELSE r

permissionStatus(r) ==
  IF r.k = "await" THEN r
  ELSE IF r.k = "return"
       THEN Return(JObject([calendar |-> TRUE, details |-> <<"Calendar: accessible">>]))
       ELSE Return(JObject([calendar |-> FALSE,
              details |-> <<"Calendar: NOT accessible (grant Calendar permission in System Settings)">>]))

checkPermissions(out) == permissionStatus(runAppleScript([op |-> "countCalendars"], out))

getCalendars(out) == runAppleScriptJSON([op |-> "getCalendars"], out)

\* calendar?.replace(/"/g, '\\"') || ""
escapedOrEmpty(x) == IF x.t = "string" THEN replaceQuotes(x.v) ELSE ""

\* The script of getEvents: the date literals, the operand of the test
\* `if "${calendar}" is ""`, the calendar named in its else branch, the limit.
getEventsScript(calendar, dateRange, limit) ==
  [ op |-> "getEvents",
    startDate |-> dateRange.start,
    endDate |-> dateRange.end,
    ifCalendar |-> TemplateStr(calendar),
    elseCalendar |-> escapedOrEmpty(calendar),
    limit |-> limit ]

\* events.map(...).sort(...) on the decoded output.
sortedEvents(events) ==
  IF events.k # "return" THEN events
  ELSE IF events.value.j # "array" THEN Throw("events.map is not a function")
  ELSE Return(JArray(ArraySort(normalizeDates(events.value.items))))

getEventsBetween(calendar, limit, start, end, out) ==
  IF start = Null \/ end = Null THEN Throw("Invalid date format")
  ELSE sortedEvents(runAppleScriptJSON(
         getEventsScript(calendar, getDateRange(start, end), limit), out))

\* getEvents reading the clock once for both defaults.
getEventsOneReading(options, clock, out) ==
  getEventsBetween(
    options.calendar,
    IF options.limit.t = "undefined" THEN 100 ELSE options.limit.v,
    IF Truthy(options.startDate) THEN parseDate(options.startDate.v) ELSE DateOf(clock[1]),
    IF Truthy(options.endDate) THEN parseDate(options.endDate.v)
    ELSE DateOf(clock[1] + 30 * 24 * 60 * 60),
    out)

\* clock holds the readings the call makes: new Date() is read when no start
\* is given, then Date.now() when no end is given.
getEvents(options, clock, out) ==
  getEventsBetween(
    options.calendar,
    IF options.limit.t = "undefined" THEN 100 ELSE options.limit.v,
    IF Truthy(options.startDate) THEN parseDate(options.startDate.v) ELSE DateOf(clock[1]),
    IF Truthy(options.endDate) THEN parseDate(options.endDate.v)
    ELSE DateOf(clock[IF Truthy(options.startDate) THEN 1 ELSE 2] + 30 * 24 * 60 * 60),
    out)

\* ${x ? `set <prop> of newEvent to "${escaped}"` : ""}
optionalLine(prop, x) ==
  IF Truthy(x) THEN <<[set |-> prop, to |-> replaceQuotes(x.v)]>> ELSE <<>>

createEventScript(options, start, end, allDay) ==
  [ op |-> "createEvent",
    calendarTarget |-> IF Truthy(options.calendar)
                         THEN [named |-> TRUE, name |-> replaceQuotes(options.calendar.v)]
                         ELSE [named |-> FALSE, name |-> "first calendar"],
    summary |-> replaceQuotes(options.summary.v),
    startDate |-> formatDateForAppleScript(start),
    endDate |-> formatDateForAppleScript(end),
    allDay |-> allDay,
    lines |-> optionalLine("description", options.description)
                \o optionalLine("location", options.location)
                \o optionalLine("url", options.url) ]

\* The text of a trimmed standard output that is not a JSON array.
OutText(stdout) == IF stdout.kind = "empty" THEN "" ELSE stdout.text

\* try { const id = await runAppleScript(script); return { success: true, id } }
\* catch (error) { return { success: false, error: error.message } }
createResult(r) ==
  IF r.k = "await" THEN r
  ELSE IF r.k = "return" THEN Return(JObject([success |-> TRUE, id |-> OutText(r.value)]))
  ELSE Return(JObject([success |-> FALSE, error |-> r.message]))

\* createEvent taking the default end when end_date is no date.
createEventBetweenDefaulting(options, allDay, start, end, out) ==
  createResult(runAppleScript(
    createEventScript(options, start,
                      IF end = Null THEN DateOf(start.time + 60 * 60) ELSE end, allDay), out))

createEventBetween(options, allDay, start, end, out) ==
  IF end = Null THEN Return(JObject([success |-> FALSE, error |-> "Invalid end date"]))
  ELSE createResult(runAppleScript(createEventScript(options, start, end, allDay), out))

\* createEvent with a default end one hour after the start, all-day or not.
createEventAtOneHour(options, allDay, start, out) ==
  IF start = Null THEN Return(JObject([success |-> FALSE, error |-> "Invalid start date"]))
  ELSE createEventBetween(options, allDay, start,
         IF Truthy(options.endDate) THEN parseDate(options.endDate.v)
         ELSE DateOf(start.time + 60 * 60),
         out)

createEventAt(options, allDay, start, out) ==
  IF start = Null THEN Return(JObject([success |-> FALSE, error |-> "Invalid start date"]))
  ELSE createEventBetween(options, allDay, start,
         IF Truthy(options.endDate) THEN parseDate(options.endDate.v)
         ELSE DateOf(start.time + (IF allDay THEN 24 * 60 * 60 ELSE 60 * 60)),
         out)

createEvent(options, out) ==
  createEventAt(options,
                IF options.allDay.t = "undefined" THEN FALSE ELSE options.allDay.v,
                parseDate(options.startDate.v), out)

definedLine(prop, x) ==
  IF x.t # "undefined" THEN <<[set |-> prop, to |-> replaceQuotes(x.v)]>> ELSE <<>>

parsedLine(prop, date) ==
  IF date # Null THEN <<[set |-> prop, to |-> formatDateForAppleScript(date)]>> ELSE <<>>

\* The date line written with the string as it was given.
dateLineAsGiven(prop, x) == IF Truthy(x) THEN <<[set |-> prop, to |-> x.v]>> ELSE <<>>

\* if (startDate) { const date = parseDate(startDate); if (date) { updateLines.push(...) } }
dateLine(prop, x) == IF Truthy(x) THEN parsedLine(prop, parseDate(x.v)) ELSE <<>>

updateLines(updates) ==
  definedLine("summary", updates.summary)
    \o definedLine("description", updates.description)
    \o definedLine("location", updates.location)
    \o dateLine("start date", updates.startDate)
    \o dateLine("end date", updates.endDate)
    \o (IF updates.allDay.t # "undefined"
          THEN <<[set |-> "allday event", to |-> TemplateStr(updates.allDay)]>> ELSE <<>>)

\* try { await runAppleScript(script); return { success: true } }
\* catch (error) { return { success: false, error: error.message } }
successResult(r) ==
  IF r.k = "await" THEN r
  ELSE IF r.k = "return" THEN Return(JObject([success |-> TRUE]))
  ELSE Return(JObject([success |-> FALSE, error |-> r.message]))

\* updateEvent without the check of updateLines.length.
updateEventWithAnyLines(eventId, calendarName, lines, out) ==
  successResult(runAppleScript(
    [ op |-> "updateEvent",
      calendar |-> replaceQuotes(calendarName.v),
      uid |-> replaceQuotes(eventId.v),
      lines |-> lines ], out))

updateEventWith(eventId, calendarName, lines, out) ==
  IF Len(lines) = 0 THEN Return(JObject([success |-> FALSE, error |-> "No updates provided"]))
  ELSE successResult(runAppleScript(
         [ op |-> "updateEvent",
           calendar |-> replaceQuotes(calendarName.v),
           uid |-> replaceQuotes(eventId.v),
           lines |-> lines ], out))

updateEvent(eventId, calendarName, updates, out) ==
  updateEventWith(eventId, calendarName, updateLines(updates), out)

deleteEvent(eventId, calendarName, out) ==
  successResult(runAppleScript(
    [ op |-> "deleteEvent",
      calendar |-> replaceQuotes(calendarName.v),
      uid |-> replaceQuotes(eventId.v) ], out))

\* String.prototype.toLowerCase on the strings of the model.
toLowerCase(s) ==
  CASE s = "Meeting" -> "meeting"
    [] OTHER -> s

\* The script of searchEvents; targetCals is the line
\* ${calendar ? `set targetCals to {calendar "..."}` : "set targetCals to calendars"}.
searchEventsScript(query, calendar, dateRange, limit) ==
  [ op |-> "searchEvents",
    searchQuery |-> replaceQuotes(toLowerCase(query.v)),
    startDate |-> dateRange.start,
    endDate |-> dateRange.end,
    targetCals |-> IF Truthy(calendar)
                     THEN [named |-> TRUE, name |-> replaceQuotes(calendar.v)]
                     ELSE [named |-> FALSE, name |-> "calendars"],
    limit |-> limit ]

\* searchEvents with a window of 30 days.
searchEventsThirtyDays(query, options, clock, out) ==
  sortedEvents(runAppleScriptJSON(
    searchEventsScript(query, options.calendar,
                       getDateRange(DateOf(clock[1]), DateOf(clock[2] + 30 * 24 * 60 * 60)),
                       IF options.limit.t = "undefined" THEN 50 ELSE options.limit.v),
    out))

\* start = new Date(); end = new Date(Date.now() + 365 days)
searchEvents(query, options, clock, out) ==
  sortedEvents(runAppleScriptJSON(
    searchEventsScript(query, options.calendar,
                       getDateRange(DateOf(clock[1]), DateOf(clock[2] + 365 * 24 * 60 * 60)),
                       IF options.limit.t = "undefined" THEN 50 ELSE options.limit.v),
    out))

\* today.setHours(0, 0, 0, 0)
startOfDay(now) == now - (now % 86400)

\* today = new Date() is the one reading of the clock.
getTodayEvents(clock, out) ==
  getEvents([ calendar |-> Undefined,
              startDate |-> Str(toISOString(DateOf(startOfDay(clock[1])))),
              endDate |-> Str(toISOString(DateOf(startOfDay(clock[1]) + 86400))),
              limit |-> Undefined ], Tail(clock), out)

\* now = new Date() is the one reading of the clock.
getUpcomingEvents(days, clock, out) ==
  getEvents([ calendar |-> Undefined,
              startDate |-> Str(toISOString(DateOf(clock[1]))),
              endDate |-> Str(toISOString(DateOf(clock[1] + days * 24 * 60 * 60))),
              limit |-> Undefined ], Tail(clock), out)

(***************************************************************************)
(* Tool definitions and the tool handler.                                  *)
(***************************************************************************)
tools ==
  << "calendar_check_permissions", "calendar_get_calendars", "calendar_get_events",
     "calendar_create_event", "calendar_update_event", "calendar_delete_event",
     "calendar_search", "calendar_get_today", "calendar_get_upcoming" >>

\* The tool names the test suite expects to be registered.
EXPECTED_TOOLS ==
  << "calendar_check_permissions", "calendar_get_calendars", "calendar_get_events",
     "calendar_create_event", "calendar_update_event", "calendar_delete_event",
     "calendar_search", "calendar_get_today", "calendar_get_upcoming",
     "calendar_find_free_time", "calendar_create_recurring_event", "calendar_open",
     "calendar_open_date" >>

\* JSON.stringify(value, null, 2) of an operation's result.
stringify(step) ==
  IF step.k = "return" THEN Return([fmt |-> "json", val |-> step.value]) ELSE step

\* The check of create_event with && in place of ||.
createEventArgsBothMissing(args) == ~Truthy(args.summary) /\ ~Truthy(args.start_date)

\* if (!args.summary || !args.start_date)
createEventArgsMissing(args) == ~Truthy(args.summary) \/ ~Truthy(args.start_date)

\* The check of update_event and delete_event without the calendar.
eventIdMissing(args) == ~Truthy(args.event_id)

\* The check of calendar_update_event and calendar_delete_event left out.
eventRefNeverMissing(args) == FALSE

\* if (!args.event_id || !args.calendar)
eventRefMissing(args) == ~Truthy(args.event_id) \/ ~Truthy(args.calendar)

\* if (!args.query)
queryMissing(args) == ~Truthy(args.query)

\* The unknown-tool failure without the name.
unknownToolUnnamed(name) == Throw("Unknown tool")

unknownTool(name) == Throw("Unknown tool: " \o name)

handleToolCall(name, args, clock, out) ==
  CASE name = "calendar_check_permissions" -> stringify(checkPermissions(out))
    [] name = "calendar_get_calendars" -> stringify(getCalendars(out))
    [] name = "calendar_get_events" ->
         stringify(getEvents([ calendar |-> args.calendar, startDate |-> args.start_date,
                               endDate |-> args.end_date, limit |-> args.limit ], clock, out))
    [] name = "calendar_create_event" ->
         IF createEventArgsMissing(args) THEN Throw("summary and start_date are required")
         ELSE stringify(createEvent(
                [ summary |-> args.summary, startDate |-> args.start_date,
                  endDate |-> args.end_date, allDay |-> args.all_day,
                  calendar |-> args.calendar, description |-> args.description,
                  location |-> args.location, url |-> args.url ], out))
    [] name = "calendar_update_event" ->
         IF eventRefMissing(args) THEN Throw("event_id and calendar are required")
         ELSE stringify(updateEvent(args.event_id, args.calendar,
                [ summary |-> args.summary, startDate |-> args.start_date,
                  endDate |-> args.end_date, description |-> args.description,
                  location |-> args.location, allDay |-> args.all_day ], out))
    [] name = "calendar_delete_event" ->
         IF eventRefMissing(args) THEN Throw("event_id and calendar are required")
         ELSE stringify(deleteEvent(args.event_id, args.calendar, out))
    [] name = "calendar_search" ->
         IF queryMissing(args) THEN Throw("query is required")
         ELSE stringify(searchEvents(args.query,
                [ calendar |-> args.calendar, limit |-> args.limit ], clock, out))
    [] name = "calendar_get_today" -> stringify(getTodayEvents(clock, out))
    [] name = "calendar_get_upcoming" ->
         stringify(getUpcomingEvents(IF Truthy(args.days) THEN args.days.v ELSE 7, clock, out))
    [] OTHER -> unknownTool(name)

(***************************************************************************)
(* The request handlers of the server.                                     *)
(***************************************************************************)
\* The call-tool handler without its catch: the exception leaves the handler.
callToolResponseUncaught(step) ==
  IF step.k = "return"
    THEN [ content |-> << [type |-> "text", text |-> step.value] >> ]
    ELSE [ exception |-> step.message ]

\* The response of the call-tool handler to a settled handleToolCall: its
\* try returns the result, its catch returns the error envelope.
callToolResponse(step) ==
  IF step.k = "return"
    THEN [ content |-> << [type |-> "text", text |-> step.value] >> ]
    ELSE [ content |-> << [type |-> "text",
                           text |-> [fmt |-> "string", val |-> "Error: " \o step.message]] >>,
           isError |-> TRUE ]

\* The response of the list-tools handler: the names of the registered tools.
listToolsResponse == tools

(***************************************************************************)
(* Requests: tool names and argument bags.                                 *)
(***************************************************************************)
NoArgs ==
  [ summary |-> Undefined, start_date |-> Undefined, end_date |-> Undefined,
    all_day |-> Undefined, calendar |-> Undefined, description |-> Undefined,
    location |-> Undefined, url |-> Undefined, event_id |-> Undefined,
    query |-> Undefined, limit |-> Undefined, days |-> Undefined,
    frequency |-> Undefined ]

\* const { name, arguments: args } = request.params; ... args || {}
argsOrEmpty(args) == IF args = Undefined THEN NoArgs ELSE args

\* The number of times a call reads the clock.
ClockReads(name, args) ==
  CASE name = "calendar_get_events" ->
         (IF Truthy(args.start_date) THEN 0 ELSE 1) + (IF Truthy(args.end_date) THEN 0 ELSE 1)
    [] name = "calendar_search" -> IF Truthy(args.query) THEN 2 ELSE 0
    [] name \in { "calendar_get_today", "calendar_get_upcoming" } -> 1
    [] OTHER -> 0

\* A request: request.params and the readings of the clock its call makes.
RequestsOf(name, argSet) ==
  UNION { { [name |-> name, args |-> args, clock |-> clock] :
              clock \in Clocks(ClockReads(name, argsOrEmpty(args))) } : args \in argSet }

(***************************************************************************)
(* Outcomes of the osascript run.                                          *)
(***************************************************************************)
StartStrings ==
  { "2025-01-15T10:00:00", "2025-01-15T12:00:00", "missing value" }

Event(i, start) ==
  [ id |-> "event-" \o Digit(i), summary |-> "Team Meeting", description |-> "Weekly sync",
    location |-> "", startDate |-> start, endDate |-> "2025-01-16T09:00:00",
    allDay |-> FALSE, calendar |-> "Work", url |-> "", status |-> "confirmed" ]

\* The event arrays a script prints: the i-th printed event has id event-i.
EventLists ==
  UNION { { [ i \in 1..n |-> Event(i, f[i]) ] : f \in [1..n -> StartStrings] } : n \in 0..MaxEvents }

Calendars ==
  << [id |-> "cal-1", name |-> "Work", color |-> "blue", writable |-> TRUE],
     [id |-> "cal-2", name |-> "Personal", color |-> "green", writable |-> TRUE] >>

\* The standard output of a run that only reads the calendars, whatever the
\* calendars hold.
Outputs(s) ==
  CASE s.op \in { "getEvents", "searchEvents" } ->
         \* the script prints an event only `if matchCount < ${limit}`
         { EmptyOut, BlankOut, TextOut("not json") }
           \cup { ArrayOut(es) : es \in { l \in EventLists : Len(l) <= s.limit } }
    [] s.op = "getCalendars" -> { EmptyOut, TextOut("not json"), ArrayOut(Calendars) }
    [] s.op = "countCalendars" -> { TextOut("2") }
    [] OTHER -> {}

(***************************************************************************)
(* The script text and the command line.  The fixed text of a template is  *)
(* shortened, "..." standing for the lines left out, and is cut at its     *)
(* apostrophes only; the interpolated strings are given by their pieces.   *)
(***************************************************************************)
\* on replaceText(theText, searchStr, replaceStr) ... end replaceText
replaceTextHandler ==
  << "on replaceText(theText, searchStr, replaceStr) set AppleScript", "'",
     "s text item delimiters to searchStr ... set AppleScript", "'",
     "s text item delimiters to replaceStr ... set AppleScript", "'",
     "s text item delimiters to \"\" return theText end replaceText" >>

\* calendar "<name>", or the words that stand in its place.
targetText(target) ==
  IF target.named THEN << "calendar \"" >> \o Pieces(target.name) \o << "\"" >>
  ELSE << target.name >>

\* One line `set <property> of <event> to ...`.
lineText(line, event) ==
  << "set " \o line.set \o " of " \o event \o " to " >>
    \o (IF line.set \in { "start date", "end date" } THEN << "date \"", line.to, "\"" >>
        ELSE IF line.set = "allday event" THEN << line.to >>
        ELSE << "\"" >> \o Pieces(line.to) \o << "\"" >>)

linesText(lines, event) ==
  LET upTo[k \in 0..Len(lines)] ==
        IF k = 0 THEN <<>> ELSE upTo[k - 1] \o lineText(lines[k], event) \o << " " >>
  IN upTo[Len(lines)]

scriptText(s) ==
  CASE s.op = "countCalendars" -> << "tell application \"Calendar\" to count of calendars" >>
    [] s.op = "getCalendars" ->
         << "tell application \"Calendar\" set output to \"[\" ... return output end tell " >>
           \o replaceTextHandler
    [] s.op = "getEvents" ->
         << "tell application \"Calendar\" set output to \"[\" set startDate to date \"",
            s.startDate, "\" set endDate to date \"", s.endDate,
            "\" set matchCount to 0 if \"" >>
           \o Pieces(s.ifCalendar)
           \o << "\" is \"\" then set targetCals to calendars else set targetCals to {calendar \"" >>
           \o Pieces(s.elseCalendar)
           \o << "\"} end if ... if matchCount < ", Decimal(s.limit),
                 " then ... return output end tell " >>
           \o replaceTextHandler
    [] s.op = "createEvent" ->
         << "tell application \"Calendar\" set newEvent to make new event at end of events of " >>
           \o targetText(s.calendarTarget)
           \o << " with properties {summary:\"" >> \o Pieces(s.summary)
           \o << "\", start date:date \"", s.startDate, "\", end date:date \"", s.endDate,
                 "\", allday event:", IF s.allDay THEN "true" ELSE "false", "} " >>
           \o linesText(s.lines, "newEvent")
           \o << "return uid of newEvent end tell" >>
    [] s.op = "updateEvent" ->
         << "tell application \"Calendar\" set theCal to calendar \"" >> \o Pieces(s.calendar)
           \o << "\" set theEvent to (first event of theCal whose uid is \"" >>
           \o Pieces(s.uid) \o << "\") " >>
           \o linesText(s.lines, "theEvent")
           \o << "return \"done\" end tell" >>
    [] s.op = "deleteEvent" ->
         << "tell application \"Calendar\" set theCal to calendar \"" >> \o Pieces(s.calendar)
           \o << "\" set theEvent to (first event of theCal whose uid is \"" >>
           \o Pieces(s.uid) \o << "\") delete theEvent return \"done\" end tell" >>
    [] s.op = "searchEvents" ->
         << "tell application \"Calendar\" set output to \"[\" set searchQuery to \"" >>
           \o Pieces(s.searchQuery)
           \o << "\" set matchCount to 0 set startDate to date \"", s.startDate,
                 "\" set endDate to date \"", s.endDate, "\" " >>
           \o (IF s.targetCals.named THEN << "set targetCals to {" >> ELSE << "set targetCals to " >>)
           \o targetText(s.targetCals)
           \o (IF s.targetCals.named THEN << "}" >> ELSE <<>>)
           \o << " ... if matchCount < ", Decimal(s.limit),
                 " then ... return output end tell on toLowerCase(theText) ... end toLowerCase " >>
           \o replaceTextHandler
    [] OTHER -> <<>>

\* The command line without the replacement of the apostrophes.
commandLineUnquoted(text) == << "osascript", " ", "-e", " ", "'" >> \o text \o << "'" >>

\* `osascript -e '${script.replace(/'/g, "'\\''")}'`
commandLine(text) ==
  << "osascript", " ", "-e", " ", "'" >>
    \o replaceAll(text, "'", << "'", "\\", "'", "'" >>)
    \o << "'" >>

\* The shell reading one piece of a command line.  Outside apostrophes a
\* blank ends the word, a backslash makes the next character part of the
\* word and any text but the command's own words is the shell's to split
\* and interpret (split); between apostrophes every piece is part of the
\* word.
shellRead(sh, p) ==
  IF sh.quoted
    THEN IF p = "'" THEN [sh EXCEPT !.quoted = FALSE]
         ELSE [sh EXCEPT !.word = sh.word \o p]
  ELSE IF sh.escaped
    THEN [sh EXCEPT !.escaped = FALSE, !.word = sh.word \o p, !.inWord = TRUE,
                    !.split = sh.split \/ p \notin { "'", "\"", "\\", " " }]
  ELSE IF p = " "
    THEN [sh EXCEPT !.words = IF sh.inWord THEN Append(sh.words, sh.word) ELSE sh.words,
                    !.word = "", !.inWord = FALSE]
  ELSE IF p = "'" THEN [sh EXCEPT !.quoted = TRUE, !.inWord = TRUE]
  ELSE IF p = "\\" THEN [sh EXCEPT !.escaped = TRUE]
  ELSE [sh EXCEPT !.word = sh.word \o p, !.inWord = TRUE,
                  !.split = sh.split \/ p \notin { "osascript", "-e" }]

shellEnd(sh) ==
  [ words |-> IF sh.inWord THEN Append(sh.words, sh.word) ELSE sh.words,
    whole |-> ~sh.quoted /\ ~sh.escaped /\ ~sh.split ]

\* The words /bin/sh makes of a command line, and whether the line is whole:
\* its quoting is closed and none of its text lay outside the quoting.
shellWords(line) ==
  LET upTo[k \in 0..Len(line)] ==
        IF k = 0
          THEN [ words |-> <<>>, word |-> "", inWord |-> FALSE, quoted |-> FALSE,
                 escaped |-> FALSE, split |-> FALSE ]
          ELSE shellRead(upTo[k - 1], line[k])
  IN shellEnd(upTo[Len(line)])

\* The script osascript is given: the word after -e.
receivedScript(sh) ==
  IF sh.whole /\ Len(sh.words) = 3 /\ sh.words[1] = "osascript" /\ sh.words[2] = "-e"
    THEN [given |-> TRUE, text |-> sh.words[3]]
    ELSE [given |-> FALSE, text |-> ""]

\* exec of the command line: the script as osascript receives it.
execScript(s) == receivedScript(shellWords(commandLine(scriptText(s))))

\* What a run that fails writes to its standard error.  A run killed by the
\* timeout of 30000 ms has written nothing.
standardError(class) ==
  CASE class = "AuthorizationDenied" ->
         << "execution error: Not authorized to send Apple events to Calendar. (-1743)", "\n" >>
    [] class = "LookupMiss" ->
         << "execution error: Calendar got an error: Can", "'", "t get event. (-1728)", "\n" >>
    [] class = "Connection" ->
         << "execution error: Calendar got an error: Connection is invalid. (-609)", "\n" >>
    [] class = "Handler" ->
         << "execution error: Calendar got an error: AppleEvent handler failed. (-10000)", "\n" >>
    [] class = "Syntax" ->
         << "syntax error: Expected end of line but found unknown token. (-2741)", "\n" >>
    [] class = "Shell" ->
         << "/bin/sh: -c: line 0: unexpected EOF while looking for matching `", "'", "'", "\n" >>
    [] class = "Timeout" -> <<>>

\* The error exec rejects with when the command has exited with a failure or
\* was killed.  Its message is "Command failed: ", the command line, a line
\* feed and the standard error.
commandFailed(s, class) ==
  Fails(class,
        << "Command failed: " >> \o commandLine(scriptText(s)) \o << "\n" >>
          \o standardError(class))

\* maxBuffer: 10 * 1024 * 1024.  The run is killed when its output is longer.
Oversized == Fails("Oversized", << "stdout maxBuffer length exceeded" >>)

(***************************************************************************)
(* The Calendar application.  Its store maps each calendar to its events   *)
(* in enumeration order.  An event is an object of the application: key    *)
(* is its identity, which a reference to the event denotes whatever its    *)
(* properties become, and which no other event of its calendar has.  No    *)
(* string of the store holds a quote or a backslash.                       *)
(***************************************************************************)
\* `calendars`, in enumeration order.
CalendarNames == << "Work", "Personal" >>

StoredEvent(uid, summary, description, location, start, end, allDay) ==
  [ key |-> uid, uid |-> uid, summary |-> summary, description |-> description,
    location |-> location, startDate |-> start, endDate |-> end, allDay |-> allDay,
    url |-> "", status |-> "confirmed" ]

WorkEvents ==
  << StoredEvent("event-1", "Team Meeting", "Weekly sync", "", 1736942400, 1737018000, TRUE),
     StoredEvent("event-2", "Lunch with John", "", "Cafe", 1737018000, 1748768400, FALSE),
     StoredEvent("event-3", "Planning", "", "Meeting Room", 1748768400, 1772355600, FALSE),
     StoredEvent("event-4", "Annual meeting", "", "", 1772355600, 1772355600, FALSE) >>

\* The same identifier as the first event of Work, in another calendar.
PersonalEvents ==
  << StoredEvent("event-1", "Dentist", "MEETING point: lobby", "", 1736938800, 1748768400,
                 FALSE) >>

DefaultStore == [ c \in { "Work", "Personal" } |->
                    IF c = "Work" THEN WorkEvents ELSE PersonalEvents ]

\* Work has two events with the identifier event-1.
DupStore ==
  [ DefaultStore EXCEPT !["Work"] =
      WorkEvents
        \o << [ StoredEvent("event-1", "Copy", "", "", 1737018000, 1748768400, FALSE)
                   EXCEPT !.key = "event-1 (2)" ] >> ]

\* The calendars the server may find when it starts.
Stores == { DefaultStore, DupStore }

\* The text between the quotes of a script literal "...", read as AppleScript
\* reads it: \" is a quote and \\ a backslash, and the first quote that no
\* backslash precedes ends the literal.  closed tells whether the literal
\* runs to the closing quote of the template.  No text of the model has
\* another character after a backslash.
readLiteral(pieces) ==
  LET from[k \in 0..(Len(pieces) + 1)] ==
        \* k pieces are left to read
        IF k = 0 \/ k = Len(pieces) + 1 THEN [closed |-> TRUE, text |-> <<>>]
        ELSE IF pieces[Len(pieces) - k + 1] = "\"" THEN [closed |-> FALSE, text |-> <<>>]
        ELSE IF pieces[Len(pieces) - k + 1] # "\\"
          THEN [ closed |-> from[k - 1].closed,
                 text |-> << pieces[Len(pieces) - k + 1] >> \o from[k - 1].text ]
        ELSE IF k = 1 \/ pieces[Len(pieces) - k + 2] \notin { "\"", "\\" }
          THEN [closed |-> FALSE, text |-> <<>>]
        ELSE [ closed |-> from[k - 2].closed,
               text |-> << pieces[Len(pieces) - k + 2] >> \o from[k - 2].text ]
  IN from[Len(pieces)]

\* The string a script literal "<lit>" denotes.
literalString(lit) == Join(readLiteral(Pieces(lit)).text)

\* The literal "<lit>" ends at the closing quote of the template.
closedLiteral(lit) == readLiteral(Pieces(lit)).closed

\* The string literals of a script that hold interpolated strings.
lineLiterals(lines) ==
  { lines[i].to : i \in { j \in 1..Len(lines) :
                            lines[j].set \in { "summary", "description", "location", "url" } } }

literals(s) ==
  CASE s.op = "getEvents" -> { s.ifCalendar, s.elseCalendar }
    [] s.op = "createEvent" ->
         { s.summary } \cup lineLiterals(s.lines)
           \cup (IF s.calendarTarget.named THEN { s.calendarTarget.name } ELSE {})
    [] s.op = "updateEvent" -> { s.calendar, s.uid } \cup lineLiterals(s.lines)
    [] s.op = "deleteEvent" -> { s.calendar, s.uid }
    [] s.op = "searchEvents" ->
         { s.searchQuery } \cup (IF s.targetCals.named THEN { s.targetCals.name } ELSE {})
    [] OTHER -> {}

\* osascript compiles the script: every literal ends where the template
\* closes it.  A literal that ends elsewhere leaves text that is no script.
compiles(s) == \A lit \in literals(s) : closedLiteral(lit)

\* The instants the program writes into scripts as date "...".
ScriptInstants ==
  IsoInstants
    \cup Readings
    \cup UNION { { now + 30 * 86400, now + 365 * 86400 } : now \in Readings }
    \cup UNION { { KnownDates[d] + 3600, KnownDates[d] + 86400 } : d \in DOMAIN KnownDates }

LocaleTable == [ t \in ScriptInstants |-> formatDateForAppleScript(DateOf(t)) ]

\* date "<text>": the instant of a date literal.
dateLiteral(text) == CHOOSE t \in ScriptInstants : LocaleTable[t] = text

\* <date> as (class isot) as string.
IsotText(c) ==
  Decimal(c.year) \o "-" \o Pad2(c.month) \o "-" \o Pad2(c.day) \o "T" \o Pad2(c.hour)
    \o ":" \o Pad2(c.minute) \o ":" \o Pad2(c.second)

isot(t) == IsotText(Civil(t))

\* last event of theCal whose uid is "<uid>": its position, or 0.
lastWithUid(events, uid) ==
  IF \E i \in 1..Len(events) : events[i].uid = uid
    THEN CHOOSE i \in 1..Len(events) :
           /\ events[i].uid = uid
           /\ \A j \in (i + 1)..Len(events) : events[j].uid # uid
    ELSE 0

\* first event of theCal whose uid is "<uid>": its position, or 0.
firstWithUid(events, uid) ==
  IF \E i \in 1..Len(events) : events[i].uid = uid
    THEN CHOOSE i \in 1..Len(events) :
           /\ events[i].uid = uid
           /\ \A j \in 1..(i - 1) : events[j].uid # uid
    ELSE 0

\* The position of the event a reference denotes, or 0 when the calendar no
\* longer has the event: the statement that uses the reference then fails
\* with the error -1728.
denoted(events, key) ==
  IF \E i \in 1..Len(events) : events[i].key = key
    THEN CHOOSE i \in 1..Len(events) : events[i].key = key
    ELSE 0

\* set <property> of theEvent to <value>
setProperty(e, line) ==
  CASE line.set = "summary" -> [e EXCEPT !.summary = literalString(line.to)]
    [] line.set = "description" -> [e EXCEPT !.description = literalString(line.to)]
    [] line.set = "location" -> [e EXCEPT !.location = literalString(line.to)]
    [] line.set = "start date" -> [e EXCEPT !.startDate = dateLiteral(line.to)]
    [] line.set = "end date" -> [e EXCEPT !.endDate = dateLiteral(line.to)]
    [] line.set = "allday event" -> [e EXCEPT !.allDay = (line.to = "true")]
    [] line.set = "url" -> [e EXCEPT !.url = literalString(line.to)]

\* The events without the i-th.
without(events, i) == SubSeq(events, 1, i - 1) \o SubSeq(events, i + 1, Len(events))

\* The identifiers of the events of the store.
uids(st) == UNION { { st[cal][i].uid : i \in 1..Len(st[cal]) } : cal \in DOMAIN st }

\* The identifier Calendar gives a new event: one no event of the store has.
newUid(st) ==
  "new-event-" \o Decimal(CHOOSE n \in 1..(Cardinality(uids(st)) + 1) :
                            /\ ("new-event-" \o Decimal(n)) \notin uids(st)
                            /\ \A k \in 1..(n - 1) : ("new-event-" \o Decimal(k)) \in uids(st))

\* make new event at end of events of <calendar> with properties {...}
newEvent(s, uid) ==
  StoredEvent(uid, literalString(s.summary), "", "", dateLiteral(s.startDate),
              dateLiteral(s.endDate), s.allDay)

\* The toLowerCase handler of the search script, on the strings of the store.
scriptToLowerCase(theText) ==
  CASE theText = "Team Meeting" -> "team meeting"
    [] theText = "Weekly sync" -> "weekly sync"
    [] theText = "Lunch with John" -> "lunch with john"
    [] theText = "Cafe" -> "cafe"
    [] theText = "Planning" -> "planning"
    [] theText = "Meeting Room" -> "meeting room"
    [] theText = "Annual meeting" -> "annual meeting"
    [] theText = "Dentist" -> "dentist"
    [] theText = "MEETING point: lobby" -> "meeting point: lobby"
    [] theText = "Copy" -> "copy"
    [] theText = "Meeting" -> "meeting"
    [] theText = "Not authorized" -> "not authorized"
    [] theText = "Line 1\nLine 2" -> "line 1\nline 2"
    [] theText = "Bob's party" -> "bob's party"
    [] OTHER -> theText

\* a contains b: AppleScript compares text ignoring case.
contains(a, b) == Includes(scriptToLowerCase(a), scriptToLowerCase(b))

\* lowerSummary contains searchQuery or lowerDesc contains ... or lowerLoc contains ...
matchesQuery(e, searchQuery) ==
  \/ contains(scriptToLowerCase(e.summary), searchQuery)
  \/ contains(scriptToLowerCase(e.description), searchQuery)
  \/ contains(scriptToLowerCase(e.location), searchQuery)

\* The event as the script prints it and JSON.parse reads it.
printedEvent(e, calName) ==
  [ id |-> e.uid, summary |-> e.summary, description |-> e.description,
    location |-> e.location, startDate |-> isot(e.startDate), endDate |-> isot(e.endDate),
    allDay |-> e.allDay, calendar |-> calName, url |-> e.url, status |-> e.status ]

\* The text holds a line feed.  The script escapes `return`, the carriage
\* return, and prints a line feed as it is.
hasLineFeed(text) == \E i \in 1..Len(Pieces(text)) : Pieces(text)[i] = "\n"

\* JSON.parse reads the printed events: none of their strings holds a raw
\* line feed.
readable(events) ==
  \A i \in 1..Len(events) :
    ~hasLineFeed(events[i].summary) /\ ~hasLineFeed(events[i].description)
      /\ ~hasLineFeed(events[i].location)

\* The output of the script that printed the events.
printedOutput(events) ==
  IF readable(events) THEN ArrayOut(events) ELSE TextOut("[{\"id\": ... \n ... }]")

(***************************************************************************)
(* The osascript process.  It runs the statements of its script one after  *)
(* the other; a statement that addresses the application is one Apple      *)
(* event, answered on the calendars as they are when it arrives.  The      *)
(* process is at the statement it sends next, its variables holding what   *)
(* the statements before have answered; the statements that address no     *)
(* object of the application (the tests, the text handlers, the building   *)
(* of the output) are run with the statement before them.                  *)
(***************************************************************************)
NoProcess == [at |-> "none"]

\* The variables of an event not yet read.
NoEvent ==
  [ uid |-> "", summary |-> "", description |-> "", location |-> "", startDate |-> 0,
    endDate |-> 0, allDay |-> FALSE, calendar |-> "", url |-> "", status |-> "" ]

\* The script changes the store when it runs.
changesStore(s) == s.op \in { "createEvent", "updateEvent", "deleteEvent" }

\* The script prints what it has read of the calendars.
readsStore(s) == s.op \in { "getEvents", "searchEvents", "getCalendars" }

\* The process before its first statement.
started(s) ==
  CASE s.op \in { "updateEvent", "deleteEvent" } -> [at |-> "theCal", n |-> 0, theEvent |-> ""]
    [] s.op = "createEvent" -> [at |-> "make", n |-> 0, theEvent |-> ""]
    [] s.op \in { "getEvents", "searchEvents" } ->
         [ at |-> "targetCals", k |-> 0, calEvents |-> <<>>, i |-> 0, j |-> 0, e |-> NoEvent,
           output |-> <<>> ]
    [] s.op = "getCalendars" -> [at |-> "allCals", i |-> 0, j |-> 0]
    [] s.op = "countCalendars" -> [at |-> "count"]

\* The statement has been answered and the process is at its next one.
goesOn(l, st) == [osascript |-> l, store |-> st, out |-> Pending]

\* The process has ended: osascript has printed its result, or an error.
ends(st, out) == [osascript |-> NoProcess, store |-> st, out |-> out]

\* The application has no object of the reference: error -1728.
miss(s, st) == ends(st, commandFailed(s, "LookupMiss"))

\* The statement after the n-th of the lines `set <property> of <event> to ...`.
afterLine(s, l) ==
  IF l.n < Len(s.lines) THEN [l EXCEPT !.at = "line", !.n = l.n + 1]
  ELSE [l EXCEPT !.at = "return", !.n = 0]

\* set theCal to calendar "<name>"
setTheCal(s, l, st) ==
  IF literalString(s.calendar) \in DOMAIN st THEN goesOn([l EXCEPT !.at = "theEvent"], st)
  ELSE miss(s, st)

\* set theEvent to (first event of theCal whose uid is "<uid>"), the i-th
\* event of the calendar: theEvent is a reference to that event.
theEventSet(s, l, st, cal, i) ==
  IF i = 0 THEN miss(s, st)
  ELSE IF s.op = "deleteEvent"
    THEN goesOn([l EXCEPT !.at = "delete", !.theEvent = st[cal][i].key], st)
  ELSE goesOn(afterLine(s, [l EXCEPT !.theEvent = st[cal][i].key]), st)

setTheEvent(s, l, st) ==
  theEventSet(s, l, st, literalString(s.calendar),
              firstWithUid(st[literalString(s.calendar)], literalString(s.uid)))

\* The n-th line `set <property> of <event> to <value>`, the event being
\* the i-th of the calendar.
lineSet(s, l, st, cal, i) ==
  IF i = 0 THEN miss(s, st)
  ELSE goesOn(afterLine(s, l), [st EXCEPT ![cal][i] = setProperty(st[cal][i], s.lines[l.n])])

setLine(s, l, st, cal) == lineSet(s, l, st, cal, denoted(st[cal], l.theEvent))

\* delete theEvent
theEventDeleted(s, l, st, cal, i) ==
  IF i = 0 THEN miss(s, st)
  ELSE goesOn([l EXCEPT !.at = "return"], [st EXCEPT ![cal] = without(st[cal], i)])

deleteTheEvent(s, l, st, cal) == theEventDeleted(s, l, st, cal, denoted(st[cal], l.theEvent))

\* The calendar of createEvent: `first calendar` is the first of the
\* calendars, calendar "<name>" the calendar named.
eventsOf(calendarTarget) ==
  IF calendarTarget.named THEN literalString(calendarTarget.name) ELSE CalendarNames[1]

\* set newEvent to make new event at end of events of <calendar> with properties {...}
newEventMade(s, l, st, cal, uid) ==
  IF cal \notin DOMAIN st THEN miss(s, st)
  ELSE goesOn(afterLine(s, [l EXCEPT !.theEvent = uid]),
              [st EXCEPT ![cal] = Append(st[cal], newEvent(s, uid))])

makeNewEvent(s, l, st) == newEventMade(s, l, st, eventsOf(s.calendarTarget), newUid(st))

\* return uid of newEvent
uidReturned(s, st, cal, i) ==
  IF i = 0 THEN miss(s, st) ELSE ends(st, Succeeds(TextOut(st[cal][i].uid)))

returnUid(s, l, st, cal) == uidReturned(s, st, cal, denoted(st[cal], l.theEvent))

\* The calendars a script reads: `if "<text>" is ""` of getEvents selects
\* all calendars, its else branch the calendar named; searchEvents carries
\* the line that sets targetCals.
targetCals(s) ==
  IF s.op = "getEvents"
    THEN IF s.ifCalendar = "" THEN CalendarNames ELSE << literalString(s.elseCalendar) >>
  ELSE IF s.targetCals.named THEN << literalString(s.targetCals.name) >>
  ELSE CalendarNames

\* set targetCals to calendars, or to {calendar "<name>"}
setTargetCals(s, l, st) ==
  IF \E k \in 1..Len(targetCals(s)) : targetCals(s)[k] \notin DOMAIN st THEN miss(s, st)
  ELSE goesOn([l EXCEPT !.at = "calEvents", !.k = 1], st)

\* events of theCal whose start date >= startDate and start date <= endDate:
\* references to the events.
eventsBetween(events, startDate, endDate) ==
  LET inRange == SelectSeq(events,
                           LAMBDA x : x.startDate >= startDate /\ x.startDate <= endDate)
  IN [ i \in 1..Len(inRange) |-> inRange[i].key ]

\* The test of matchCount left out.
underNoLimit(matchCount, limit) == TRUE

\* if matchCount < ${limit} then
underLimit(matchCount, limit) == matchCount < limit

\* repeat with theCal in targetCals ... repeat with e in calEvents ... if
\* matchCount < ${limit}: the next statement that addresses the
\* application, the process having come to the i-th event of calEvents.
\* matchCount is the number of the events printed.
nextEvent(s, l) ==
  IF l.i <= Len(l.calEvents) /\ underLimit(Len(l.output), s.limit)
    THEN [l EXCEPT !.at = "property", !.j = 1]
  ELSE IF l.k < Len(targetCals(s))
    THEN [l EXCEPT !.at = "calEvents", !.k = l.k + 1, !.calEvents = <<>>, !.i = 0, !.j = 0]
  ELSE [l EXCEPT !.at = "return", !.k = 0, !.calEvents = <<>>, !.i = 0, !.j = 0]

\* set calEvents to (events of theCal whose ...)
setCalEvents(s, l, st) ==
  goesOn(nextEvent(s, [l EXCEPT !.calEvents =
                                  eventsBetween(st[targetCals(s)[l.k]],
                                                dateLiteral(s.startDate),
                                                dateLiteral(s.endDate)),
                                !.i = 1]),
         st)

\* The properties the loop reads of an event, in the order of its
\* statements `set eId to uid of e` ...; searchEvents reads the three it
\* searches first and the others when the event matches.
Properties(s) ==
  IF s.op = "getEvents"
    THEN << "uid", "summary", "description", "location", "start date", "end date",
            "allday event", "name of theCal", "url", "status" >>
    ELSE << "summary", "description", "location", "uid", "start date", "end date",
            "allday event", "name of theCal", "url", "status" >>

\* set <variable> to <property> of e
readProperty(e, stored, calName, prop) ==
  CASE prop = "uid" -> [e EXCEPT !.uid = stored.uid]
    [] prop = "summary" -> [e EXCEPT !.summary = stored.summary]
    [] prop = "description" -> [e EXCEPT !.description = stored.description]
    [] prop = "location" -> [e EXCEPT !.location = stored.location]
    [] prop = "start date" -> [e EXCEPT !.startDate = stored.startDate]
    [] prop = "end date" -> [e EXCEPT !.endDate = stored.endDate]
    [] prop = "allday event" -> [e EXCEPT !.allDay = stored.allDay]
    [] prop = "name of theCal" -> [e EXCEPT !.calendar = calName]
    [] prop = "url" -> [e EXCEPT !.url = stored.url]
    [] prop = "status" -> [e EXCEPT !.status = stored.status]

\* The statement after the j-th property has been read into e: the next
\* property; the next event when searchEvents has read the three properties
\* it searches and none holds the query; after the last property the event
\* is printed and matchCount counts it.
afterProperty(s, l, e) ==
  IF s.op = "searchEvents" /\ l.j = 3 /\ ~matchesQuery(e, literalString(s.searchQuery))
    THEN nextEvent(s, [l EXCEPT !.i = l.i + 1, !.e = NoEvent])
  ELSE IF l.j = Len(Properties(s))
    THEN nextEvent(s, [l EXCEPT !.i = l.i + 1, !.e = NoEvent,
                                !.output = Append(l.output, printedEvent(e, e.calendar))])
  ELSE [l EXCEPT !.j = l.j + 1, !.e = e]

\* The j-th property of e is read, e being the i-th event of the calendar.
propertyRead(s, l, st, cal, i, prop) ==
  IF prop = "name of theCal" THEN goesOn(afterProperty(s, l, readProperty(l.e, NoEvent, cal, prop)), st)
  ELSE IF i = 0 THEN miss(s, st)
  ELSE goesOn(afterProperty(s, l, readProperty(l.e, st[cal][i], cal, prop)), st)

getProperty(s, l, st, cal) ==
  propertyRead(s, l, st, cal, denoted(st[cal], l.calEvents[l.i]), Properties(s)[l.j])

\* The script of getCalendars: set allCals to calendars, then uid, name,
\* color and writable of each calendar.
nextCalendarProperty(l) ==
  IF l.j < 4 THEN [l EXCEPT !.j = l.j + 1]
  ELSE IF l.i < Len(Calendars) THEN [l EXCEPT !.i = l.i + 1, !.j = 1]
  ELSE [at |-> "return", i |-> 0, j |-> 0]

\* The statement the process is at, answered on the calendars st.
statement(s, l, st) ==
  CASE l.at = "theCal" -> setTheCal(s, l, st)
    [] l.at = "theEvent" -> setTheEvent(s, l, st)
    [] l.at = "line" ->
         setLine(s, l, st, IF s.op = "createEvent" THEN eventsOf(s.calendarTarget)
                           ELSE literalString(s.calendar))
    [] l.at = "delete" -> deleteTheEvent(s, l, st, literalString(s.calendar))
    [] l.at = "make" -> makeNewEvent(s, l, st)
    [] l.at = "targetCals" -> setTargetCals(s, l, st)
    [] l.at = "calEvents" -> setCalEvents(s, l, st)
    [] l.at = "property" /\ s.op = "getCalendars" -> goesOn(nextCalendarProperty(l), st)
    [] l.at = "property" /\ s.op # "getCalendars" -> getProperty(s, l, st, targetCals(s)[l.k])
    [] l.at = "allCals" -> goesOn([at |-> "property", i |-> 1, j |-> 1], st)
    [] l.at = "count" -> ends(st, Succeeds(TextOut("2")))
    [] l.at = "return" /\ s.op = "createEvent" -> returnUid(s, l, st, eventsOf(s.calendarTarget))
    [] l.at = "return" /\ s.op \in { "updateEvent", "deleteEvent" } ->
         ends(st, Succeeds(TextOut("done")))
    [] l.at = "return" /\ s.op \in { "getEvents", "searchEvents" } ->
         ends(st, Succeeds(printedOutput(l.output)))
    [] l.at = "return" /\ s.op = "getCalendars" -> ends(st, Succeeds(ArrayOut(Calendars)))

\* The process has sent no Apple event yet.
firstStatement(l) == l.at \in { "theCal", "make", "targetCals", "allCals", "count" }

\* The failures of the statement a process is at, but for the lookup miss:
\* access is denied, or there is no connection to the application, at its
\* first Apple event; the application fails a statement that changes an
\* event.
failuresAt(l) ==
  (IF firstStatement(l) THEN { "AuthorizationDenied", "Connection" } ELSE {})
    \cup (IF l.at \in { "make", "line", "delete" } THEN { "Handler" } ELSE {})

\* A script that reads prints, when it returns, what it has read, or more
\* than maxBuffer holds.
printsAt(s, l, st) ==
  IF l.at = "return" /\ readsStore(s) THEN { ends(st, Oversized) } ELSE {}

\* The run of a script that only reads, on calendars that hold anything and
\* change in any way while it runs: it ends with any output or fails, and
\* leaves the store as it is.
anyRun(s, st) ==
  { ends(st, Succeeds(stdout)) : stdout \in Outputs(s) }
    \cup { ends(st, commandFailed(s, class)) : class \in { "AuthorizationDenied", "Connection" } }
    \cup (IF readsStore(s) THEN { miss(s, st), ends(st, Oversized) } ELSE {})

\* exec of the command line of a script: the shell hands osascript its
\* argument, osascript compiles it and runs its statements.  The steps the
\* process may take where it is.
exec(s, l, st, anyOutput) ==
  IF firstStatement(l) /\ execScript(s) # [given |-> TRUE, text |-> Join(scriptText(s))]
    THEN { ends(st, commandFailed(s, "Shell")) }
  ELSE IF firstStatement(l) /\ ~compiles(s) THEN { ends(st, commandFailed(s, "Syntax")) }
  ELSE IF anyOutput THEN anyRun(s, st)
  ELSE { statement(s, l, st) }
         \cup { ends(st, commandFailed(s, class)) : class \in failuresAt(l) }
         \cup printsAt(s, l, st)
(***************************************************************************)
(* The state machine.                                                      *)
(***************************************************************************)
Slots == 1..MaxInFlight

NoRequest == [name |-> "", args |-> Undefined, clock |-> <<>>]
NoResponse == [none |-> TRUE]
NoStore == [none |-> TRUE]

\* The server starts with no call in flight; the calendars hold one of `stores`.
InitOn(stores) ==
  /\ phase = [c \in Slots |-> "Idle"]
  /\ request = [c \in Slots |-> NoRequest]
  /\ script = [c \in Slots |-> NoScript]
  /\ submitted = [c \in Slots |-> 0]
  /\ process = [c \in Slots |-> "None"]
  /\ osascript = [c \in Slots |-> NoProcess]
  /\ adapter = [c \in Slots |-> Pending]
  /\ response = [c \in Slots |-> NoResponse]
  /\ before = [c \in Slots |-> NoStore]
  /\ effect = [c \in Slots |-> NoStore]
  /\ alone = [c \in Slots |-> TRUE]
  /\ listed = <<>>
  /\ store \in stores
  /\ changes = 0

\* The calendars hold the events of the fixtures.
Init == InitOn({ DefaultStore })

\* The list-tools request handler.  One list is asked for at a time.
ListTools ==
  /\ listed = <<>>
  /\ listed' = listToolsResponse
  /\ UNCHANGED <<phase, request, script, submitted, process, osascript, adapter, response,
                 store, before, effect, alone, changes>>

\* The response of the list-tools handler is handed to the transport.
DeliverList ==
  /\ listed # <<>>
  /\ listed' = <<>>
  /\ UNCHANGED <<phase, request, script, submitted, process, osascript, adapter, response,
                 store, before, effect, alone, changes>>

\* The call-tool request handler, from its start to `await handleToolCall`:
\* handleToolCall has run to the await of execAsync, which has started the
\* osascript process, or it has thrown or returned, and the handler has
\* yet to resume.  The call takes the first free slot.
CallTool(c, name, args, clock) ==
  /\ phase[c] = "Idle"
  /\ \A d \in 1..(c - 1) : phase[d] # "Idle"
  /\ request' = [request EXCEPT ![c] = [name |-> name, args |-> args, clock |-> clock]]
  /\ \E step \in { handleToolCall(name, argsOrEmpty(args), clock, Pending) } :
       IF step.k = "await"
         THEN /\ changesStore(step.script) => changes < MaxChanges
              /\ changes' = IF changesStore(step.script) THEN changes + 1 ELSE changes
              /\ phase' = [phase EXCEPT ![c] = "Executing"]
              /\ script' = [script EXCEPT ![c] = step.script]
              /\ submitted' = [submitted EXCEPT ![c] = 1]
              /\ process' = [process EXCEPT ![c] = "Running"]
              /\ osascript' = [osascript EXCEPT ![c] = started(step.script)]
              /\ before' = [before EXCEPT ![c] = store]
         ELSE /\ changes' = changes
              /\ phase' = [phase EXCEPT ![c] = "Validating"]
              /\ script' = script
              /\ submitted' = submitted
              /\ process' = process
              /\ osascript' = osascript
              /\ before' = before
  /\ UNCHANGED <<adapter, response, listed, store, effect, alone>>

\* The handler of a call whose handleToolCall has thrown or returned
\* without a script resumes after its await and makes the response.
HandlerResumes(c) ==
  /\ phase[c] = "Validating"
  /\ phase' = [phase EXCEPT ![c] = "Responding"]
  /\ response' = [response EXCEPT ![c] =
                    callToolResponse(handleToolCall(request[c].name,
                                                    argsOrEmpty(request[c].args),
                                                    request[c].clock, Pending))]
  /\ UNCHANGED <<request, script, submitted, process, osascript, adapter, listed, store,
                 before, effect, alone, changes>>

\* The osascript process of a call takes one step: a statement of its
\* script is answered on the calendars as they are, or the process ends
\* with a failure.  It runs beside the server and beside the processes of
\* the other calls, which lose `alone` when the step changes the store.
OsascriptSteps(c, step) ==
  /\ process[c] = "Running"
  /\ osascript' = [osascript EXCEPT ![c] = step.osascript]
  /\ store' = step.store
  /\ alone' = [d \in Slots |->
                 alone[d] /\ (d = c \/ process[d] # "Running" \/ step.store = store)]
  /\ IF step.out.settled
       THEN /\ process' = [process EXCEPT ![c] = "Ended"]
            /\ adapter' = [adapter EXCEPT ![c] = step.out]
            /\ effect' = [effect EXCEPT ![c] = step.store]
       ELSE UNCHANGED <<process, adapter, effect>>
  /\ UNCHANGED <<phase, request, script, submitted, response, listed, before, changes>>

\* The promise of execAsync has settled with the outcome of the process and
\* the call-tool handler resumes to its response.  The process is gone; a
\* handler that submitted its script again would have a new one running.
AdapterSettles(c) ==
  /\ phase[c] = "Executing"
  /\ process[c] = "Ended"
  /\ process' \in { [process EXCEPT ![c] = "None"], [process EXCEPT ![c] = "Running"] }
  /\ UNCHANGED <<request, listed, store, before, effect, alone, changes>>
  /\ \E step \in { handleToolCall(request[c].name, argsOrEmpty(request[c].args),
                                   request[c].clock, adapter[c]) } :
       IF step.k = "await"
         THEN /\ process'[c] = "Running"
              /\ phase' = phase
              /\ submitted' = [submitted EXCEPT ![c] = submitted[c] + 1]
              /\ script' = [script EXCEPT ![c] = step.script]
              /\ osascript' = [osascript EXCEPT ![c] = started(step.script)]
              /\ adapter' = [adapter EXCEPT ![c] = Pending]
              /\ response' = response
         ELSE /\ process'[c] = "None"
              /\ phase' = [phase EXCEPT ![c] = "Responding"]
              /\ submitted' = submitted
              /\ script' = script
              /\ osascript' = osascript
              /\ adapter' = adapter
              /\ response' = [response EXCEPT ![c] = callToolResponse(step)]

\* The response of a call is handed to the transport; nothing of the call is
\* kept.
Deliver(c) ==
  /\ phase[c] = "Responding"
  /\ phase' = [phase EXCEPT ![c] = "Idle"]
  /\ request' = [request EXCEPT ![c] = NoRequest]
  /\ script' = [script EXCEPT ![c] = NoScript]
  /\ submitted' = [submitted EXCEPT ![c] = 0]
  /\ adapter' = [adapter EXCEPT ![c] = Pending]
  /\ response' = [response EXCEPT ![c] = NoResponse]
  /\ before' = [before EXCEPT ![c] = NoStore]
  /\ effect' = [effect EXCEPT ![c] = NoStore]
  /\ alone' = [alone EXCEPT ![c] = TRUE]
  /\ UNCHANGED <<process, osascript, listed, store, changes>>

\* The osascript process of the call in a slot takes a step.
Osascript(c, anyOutput) ==
  /\ process[c] = "Running"
  /\ \E step \in exec(script[c], osascript[c], store, anyOutput) : OsascriptSteps(c, step)

\* { timeout: 30000 }: execAsync kills the osascript process of a call when
\* the process has not ended in time, wherever the process is.
TimesOut(c) ==
  /\ process[c] = "Running"
  /\ process' = [process EXCEPT ![c] = "Ended"]
  /\ osascript' = [osascript EXCEPT ![c] = NoProcess]
  /\ adapter' = [adapter EXCEPT ![c] = commandFailed(script[c], "Timeout")]
  /\ effect' = [effect EXCEPT ![c] = store]
  /\ UNCHANGED <<phase, request, script, submitted, response, listed, store, before, alone,
                 changes>>

\* The server whose clients send the requests of `requests`: any of them at
\* any time.  The scripts run on the calendars of the store; with
\* `anyOutput` a script that reads may print any output.
NextOf(requests, anyOutput) ==
  \/ \E c \in Slots : \E req \in requests : CallTool(c, req.name, req.args, req.clock)
  \/ \E c \in Slots : HandlerResumes(c)
  \/ \E c \in Slots : Osascript(c, anyOutput)
  \/ \E c \in Slots : TimesOut(c)
  \/ \E c \in Slots : AdapterSettles(c)
  \/ \E c \in Slots : Deliver(c)
(***************************************************************************)
(* The servers that are checked.  The clients of a server send requests of *)
(* its alphabet, any of them at any time, and the calls overlap.           *)
(***************************************************************************)
Summary == Str("Team Meeting")
StartDate == Str("2025-01-15T10:00:00Z")
EventRef == [NoArgs EXCEPT !.event_id = Str("event-1"), !.calendar = Str("Work")]

\* A call that changes the calendars and one that is refused.
Changing == RequestsOf("calendar_delete_event", { EventRef })
Refused == RequestsOf("unknown_tool", { Undefined })

\* Requests of every tool of the registry and of the tools the tests expect,
\* and of the recurring events.
DispatchRequests ==
  Changing \cup Refused
    \cup UNION { RequestsOf(name, { Undefined }) :
                   name \in { "calendar_check_permissions", "calendar_find_free_time",
                              "calendar_open", "calendar_open_date", "calendar_invalid",
                              "calendar_create_event", "calendar_update_event",
                              "calendar_delete_event", "calendar_search" } }
    \cup { r \in RequestsOf("calendar_get_today", { Undefined }) : r.clock = << 1736935200 >> }
    \cup RequestsOf("calendar_create_recurring_event",
                    { [NoArgs EXCEPT !.summary = Summary, !.start_date = StartDate,
                                     !.frequency = f] :
                        f \in { Undefined, Str("hourly"), Str("daily"), Str("weekly"),
                                Str("monthly"), Str("yearly") } })
    \cup RequestsOf("calendar_create_recurring_event",
                    { [NoArgs EXCEPT !.start_date = StartDate, !.frequency = Str("daily")] })

\* Requests whose arguments are missing, empty or no dates: all but the
\* one of `Changing` are refused before a script is built.
ValidateRequests ==
  Changing \cup Refused
    \cup { r \in RequestsOf("calendar_create_event",
                             { [NoArgs EXCEPT !.summary = m, !.start_date = s] :
                                 m \in { Undefined, Str(""), Summary },
                                 s \in { Undefined, Str(""), StartDate, Str("not-a-date") } }) :
              r.args.summary # Summary \/ r.args.start_date # StartDate }
    \cup RequestsOf("calendar_create_event",
                    { [NoArgs EXCEPT !.summary = Summary, !.start_date = s,
                                     !.end_date = Str("invalid")] :
                        s \in { StartDate, Str("not-a-date") } })
    \cup RequestsOf("calendar_update_event",
                    { [NoArgs EXCEPT !.event_id = i, !.calendar = c] :
                        i \in { Undefined, Str(""), Str("event-1") },
                        c \in { Undefined, Str(""), Str("Work") } })
    \cup RequestsOf("calendar_update_event",
                    { [EventRef EXCEPT !.start_date = Str("not-a-date")] })
    \cup RequestsOf("calendar_delete_event",
                    { [NoArgs EXCEPT !.event_id = i, !.calendar = c] :
                        i \in { Undefined, Str(""), Str("event-1") },
                        c \in { Undefined, Str(""), Str("Work") } })
    \cup RequestsOf("calendar_search", { Undefined, [NoArgs EXCEPT !.query = Str("")] })
    \cup RequestsOf("calendar_get_events",
                    { [NoArgs EXCEPT !.start_date = s, !.end_date = e] :
                        s \in { Str("2025-01-15"), Str("not-a-date") },
                        e \in { Str("invalid") } })

\* Requests of create_event.
CreateRequests ==
  Refused
    \cup RequestsOf("calendar_get_events",
                    { [NoArgs EXCEPT !.start_date = Str("2025-01-15"),
                                     !.end_date = Str("2025-02-01T00:00:00Z")] })
    \cup RequestsOf("calendar_create_event",
                    { [NoArgs EXCEPT !.summary = Summary, !.start_date = StartDate],
                      [NoArgs EXCEPT !.summary = Summary, !.start_date = StartDate,
                                     !.all_day = Bool(TRUE)],
                      [NoArgs EXCEPT !.summary = Summary, !.start_date = StartDate,
                                     !.all_day = Bool(FALSE)],
                      [NoArgs EXCEPT !.summary = Summary, !.start_date = StartDate,
                                     !.end_date = Str("2025-02-01T00:00:00Z")] })
    \cup RequestsOf("calendar_create_event",
                    { [NoArgs EXCEPT !.summary = Str("Not authorized"),
                                     !.start_date = StartDate] })

\* Requests whose strings hold quotes, apostrophes, backslashes and line feeds.
QuoteRequests ==
  Refused
    \cup RequestsOf("calendar_create_event",
                    { [NoArgs EXCEPT !.summary = Summary, !.start_date = StartDate,
                                     !.description = d] :
                        d \in { Str("C:\\"), Str("Bob's party"), Str("Line 1\nLine 2") } })
    \cup { r \in RequestsOf("calendar_get_events",
                             { [NoArgs EXCEPT !.calendar = Str("Bob \"B\""),
                                              !.start_date = Str("2025-01-15")] }) :
              r.clock = << 1736935200 >> }
    \cup RequestsOf("calendar_delete_event",
                    { [EventRef EXCEPT !.event_id = Str("it's")] })

\* Requests of update_event and delete_event, and requests with a date that
\* is no date.
EditRequests ==
  Changing \cup Refused
    \cup RequestsOf("calendar_create_event",
                    { [NoArgs EXCEPT !.summary = Summary, !.start_date = Str("not-a-date")],
                      [NoArgs EXCEPT !.summary = Summary, !.start_date = StartDate,
                                     !.end_date = Str("not-a-date")] })
    \cup RequestsOf("calendar_get_events",
                    { [NoArgs EXCEPT !.start_date = Str("not-a-date"),
                                     !.end_date = Str("2025-02-01T00:00:00Z")] })
    \cup RequestsOf("calendar_update_event",
                    { [EventRef EXCEPT !.summary = Summary, !.start_date = Str("2025-01-15")],
                      [EventRef EXCEPT !.summary = Summary, !.start_date = Str("not-a-date")],
                      [EventRef EXCEPT !.start_date = Str("not-a-date")] })
    \cup RequestsOf("calendar_update_event",
                    { [EventRef EXCEPT !.end_date = Str("not-a-date"),
                                       !.all_day = Bool(FALSE)] })
    \cup RequestsOf("calendar_delete_event", { [EventRef EXCEPT !.calendar = Str("Personal")] })

\* Requests of the tools that read a window of events.
WindowRequests ==
  Changing \cup Refused
    \cup { r \in RequestsOf("calendar_get_events",
                             { NoArgs,
                               [NoArgs EXCEPT !.start_date = Str("2025-01-15"),
                                              !.end_date = Str("2025-02-01T00:00:00Z"),
                                              !.limit = Num(2)] })
                   \cup RequestsOf("calendar_get_upcoming",
                                   { [NoArgs EXCEPT !.days = d] :
                                       d \in { Undefined, Num(0), Num(3) } }) :
              r.clock = <<>> \/ r.clock[1] = 1736935200 }

\* Requests of search and of get_events with a limit.
SearchRequests ==
  Changing \cup Refused
    \cup { r \in RequestsOf("calendar_search",
                             { [NoArgs EXCEPT !.query = Str("Meeting")],
                               [NoArgs EXCEPT !.query = Str("meeting"), !.calendar = Str("Work"),
                                              !.limit = Num(2)] }) :
              r.clock = << 1736935200, 1736935201 >> }
    \cup RequestsOf("calendar_get_events",
                    { [NoArgs EXCEPT !.calendar = Str(""), !.start_date = Str("2025-01-15"),
                                     !.end_date = Str("2025-02-01T00:00:00Z"),
                                     !.limit = Num(2)] })

\* Requests of the tools that decode the output of their script.
DecodeRequests ==
  RequestsOf("calendar_get_events",
             { [NoArgs EXCEPT !.start_date = Str("2025-01-15"),
                              !.end_date = Str("2025-02-01T00:00:00Z"), !.limit = Num(3)] })
    \cup RequestsOf("calendar_search", { [NoArgs EXCEPT !.query = Str("meeting"), !.limit = Num(1)] })
    \cup { r \in RequestsOf("calendar_get_today", { Undefined })
                   \cup RequestsOf("calendar_get_upcoming", { [NoArgs EXCEPT !.days = Num(3)] }) :
              r.clock = << 1736935200 >> }
    \cup RequestsOf("calendar_get_calendars", { Undefined })
    \cup RequestsOf("calendar_check_permissions", { Undefined })
    \cup RequestsOf("unknown_tool", { Undefined })

\* The server that is sent the requests of every tool.
Next == ListTools \/ DeliverList \/ NextOf(DispatchRequests, FALSE)

Spec == Init /\ [][Next]_vars

\* The servers that are sent the requests of one family.
ValidateSpec == Init /\ [][NextOf(ValidateRequests, FALSE)]_vars
CreateSpec == Init /\ [][NextOf(CreateRequests, FALSE)]_vars
QuoteSpec == Init /\ [][NextOf(QuoteRequests, FALSE)]_vars
EditSpec == InitOn(Stores) /\ [][NextOf(EditRequests, FALSE)]_vars
WindowSpec == Init /\ [][NextOf(WindowRequests, FALSE)]_vars
SearchSpec == Init /\ [][NextOf(SearchRequests, FALSE)]_vars
DecodeSpec == Init /\ [][NextOf(DecodeRequests, TRUE)]_vars

\* Requests of a server whose every call is answered.
LiveRequests ==
  Changing \cup Refused
    \cup RequestsOf("calendar_delete_event", { [NoArgs EXCEPT !.event_id = Str("event-1")] })
    \cup RequestsOf("calendar_create_event",
                    { [NoArgs EXCEPT !.summary = Summary, !.start_date = StartDate] })
    \cup { r \in RequestsOf("calendar_search",
                             { NoArgs, [NoArgs EXCEPT !.query = Str("line"), !.limit = Num(1)] }) :
              r.clock \in { <<>>, << 1736935200, 1736935201 >> } }

\* An osascript process that has not ended, and a call whose process has
\* ended and whose handler has not resumed yet.
Running(c) == process[c] = "Running"
Settled(c) == phase[c] = "Executing" /\ process[c] = "Ended"

\* The timeout of execAsync can kill exactly the processes that have not
\* ended, and exactly the handlers whose process has ended can resume.
EnabledWhen ==
  \A c \in Slots :
    /\ (ENABLED <<TimesOut(c)>>_vars) <=> Running(c)
    /\ (ENABLED <<AdapterSettles(c)>>_vars) <=> Settled(c)

\* The server whose event loop runs the continuations that are ready and
\* whose timers fire: a handler that can resume does, and an osascript
\* process that has not ended is killed by the timeout of execAsync.  The
\* last two conjuncts are WF_vars(TimesOut(c)) and WF_vars(AdapterSettles(c))
\* with ENABLED written out as EnabledWhen states it.
LiveSpec ==
  /\ Init
  /\ [][NextOf(LiveRequests, FALSE)]_vars
  /\ \A c \in Slots :
       /\ WF_vars(HandlerResumes(c))
       /\ []<>(~Running(c)) \/ []<><<TimesOut(c)>>_vars
       /\ []<>(~Settled(c)) \/ []<><<AdapterSettles(c)>>_vars
(***************************************************************************)
(* Vocabulary of the properties.                                           *)
(***************************************************************************)
Responding(slot) == phase[slot] = "Responding"

ToolSet == { tools[i] : i \in 1..Len(tools) }
ExpectedToolSet == { EXPECTED_TOOLS[i] : i \in 1..Len(EXPECTED_TOOLS) }

Args(slot) == argsOrEmpty(request[slot].args)

MissingOrEmpty(x) == x = Undefined \/ x = Str("")

IsEnvelope(r) == "content" \in DOMAIN r
IsError(r) == "isError" \in DOMAIN r /\ r.isError
Text(slot) == response[slot].content[1].text
ErrorText(message) == [fmt |-> "string", val |-> "Error: " \o message]

\* The readings of the clock the call makes: the first one and the last one.
FirstReading(slot) == request[slot].clock[1]
LastReading(slot) == request[slot].clock[Len(request[slot].clock)]

AdapterFailed(slot) == adapter[slot].settled /\ ~adapter[slot].ok
AdapterSucceeded(slot) == adapter[slot].settled /\ adapter[slot].ok

\* The required arguments each tool schema declares.
MissingRequired(slot) ==
  \/ /\ request[slot].name = "calendar_create_event"
     /\ MissingOrEmpty(Args(slot).summary) \/ MissingOrEmpty(Args(slot).start_date)
  \/ /\ request[slot].name \in { "calendar_update_event", "calendar_delete_event" }
     /\ MissingOrEmpty(Args(slot).event_id) \/ MissingOrEmpty(Args(slot).calendar)
  \/ /\ request[slot].name = "calendar_search"
     /\ MissingOrEmpty(Args(slot).query)

\* Which calendars a submitted script reads: the test `if "<text>" is ""`
\* of the getEvents script selects the calendar collection only when the
\* interpolated text is empty; the searchEvents script carries the selection.
TargetsAllCalendars(s) ==
  CASE s.op = "getEvents" -> s.ifCalendar = ""
    [] s.op = "searchEvents" -> ~s.targetCals.named
    [] OTHER -> FALSE

(***************************************************************************)
(* C1.  Whatever the tool name, the arguments and the outcome of the       *)
(* osascript run, the call-tool handler answers with an envelope holding   *)
(* exactly one content item, of type text: no exception leaves it.         *)
(***************************************************************************)
C1_OneTextItem ==
  \A slot \in Slots :
    Responding(slot) =>
      /\ IsEnvelope(response[slot])
      /\ Len(response[slot].content) = 1
      /\ response[slot].content[1].type = "text"

\* calendar_get_events whose run timed out has been answered with an error envelope.
C1_Witness ==
  \E slot \in Slots :
    /\ Responding(slot)
    /\ IsEnvelope(response[slot])
    /\ request[slot].name = "calendar_get_events"
    /\ AdapterFailed(slot)
    /\ adapter[slot].class = "Timeout"
    /\ IsError(response[slot])

(***************************************************************************)
(* C2.  isError is set exactly when the call failed (missing required      *)
(* argument, unknown tool, failed osascript run), the payload then being   *)
(* "Error: " and the message of the failure; when the call succeeded the   *)
(* flag is not set and the payload is the result.                          *)
(***************************************************************************)
CallFailed(slot) == request[slot].name \notin ToolSet \/ MissingRequired(slot) \/ AdapterFailed(slot)

C2_ErrorFlagIffFailed ==
  \A slot \in Slots :
    Responding(slot) =>
      /\ CallFailed(slot) => IsError(response[slot]) /\ Text(slot).fmt = "string"
      /\ IsError(response[slot]) => Text(slot).fmt = "string"
      /\ ~IsError(response[slot]) => Text(slot).fmt = "json"

\* The tools that decode the output of their script, and those among them
\* that return events.
ListTools5 ==
  { "calendar_get_calendars", "calendar_get_events", "calendar_search",
    "calendar_get_today", "calendar_get_upcoming" }

EventListTools == ListTools5 \ { "calendar_get_calendars" }

(***************************************************************************)
(* C3.  calendar_create_event with summary or start_date missing or empty  *)
(* fails with the message naming summary and start_date, and no script is  *)
(* submitted during the call.                                              *)
(***************************************************************************)
C3_CreateValidation ==
  \A slot \in Slots :
    /\ request[slot].name = "calendar_create_event"
    /\ MissingOrEmpty(Args(slot).summary) \/ MissingOrEmpty(Args(slot).start_date)
    => /\ phase[slot] # "Executing"
       /\ submitted[slot] = 0
       /\ script[slot] = NoScript
       /\ Responding(slot) =>
            /\ IsError(response[slot])
            /\ Text(slot) = ErrorText("summary and start_date are required")

\* Only the summary is present.
C3_Witness ==
  \E slot \in Slots :
    /\ Responding(slot)
    /\ request[slot].name = "calendar_create_event"
    /\ Args(slot).summary = Str("Team Meeting")
    /\ Args(slot).start_date = Undefined
    /\ IsError(response[slot])
    /\ submitted[slot] = 0

(***************************************************************************)
(* C4.  calendar_update_event and calendar_delete_event with event_id or   *)
(* calendar missing, and calendar_search with query missing, fail with a   *)
(* message naming the required fields; no script is submitted.             *)
(***************************************************************************)
C4_RequiredFields ==
  \A slot \in Slots :
    /\ /\ request[slot].name \in { "calendar_update_event", "calendar_delete_event" }
       /\ MissingOrEmpty(Args(slot).event_id) \/ MissingOrEmpty(Args(slot).calendar)
       => /\ phase[slot] # "Executing"
          /\ submitted[slot] = 0
          /\ script[slot] = NoScript
          /\ Responding(slot) =>
               /\ IsError(response[slot])
               /\ Text(slot) = ErrorText("event_id and calendar are required")
    /\ /\ request[slot].name = "calendar_search"
       /\ MissingOrEmpty(Args(slot).query)
       => /\ phase[slot] # "Executing"
          /\ submitted[slot] = 0
          /\ script[slot] = NoScript
          /\ Responding(slot) =>
               /\ IsError(response[slot])
               /\ Text(slot) = ErrorText("query is required")

\* delete_event with an event id and no calendar.
C4_Witness ==
  \E slot \in Slots :
    /\ Responding(slot)
    /\ request[slot].name = "calendar_delete_event"
    /\ Args(slot).event_id = Str("event-1")
    /\ Args(slot).calendar = Undefined
    /\ IsError(response[slot])
    /\ submitted[slot] = 0

(***************************************************************************)
(* C5.  A tool name outside the registry fails with the unknown-tool       *)
(* failure, whose message holds the name as it was passed; no script is    *)
(* submitted.                                                              *)
(***************************************************************************)
C5_UnknownTool ==
  \A slot \in Slots :
    request[slot].name \notin ToolSet /\ request[slot] # NoRequest
    => /\ phase[slot] # "Executing"
       /\ submitted[slot] = 0
       /\ script[slot] = NoScript
       /\ Responding(slot) =>
            /\ IsError(response[slot])
            /\ Text(slot) = ErrorText("Unknown tool: " \o request[slot].name)

C5_Witness ==
  \E slot \in Slots :
    /\ Responding(slot)
    /\ request[slot].name = "unknown_tool"
    /\ IsError(response[slot])
    /\ Text(slot) = ErrorText("Unknown tool: unknown_tool")
    /\ submitted[slot] = 0

(***************************************************************************)
(* C6.  The registry holds exactly the 13 expected names: the list-tools   *)
(* response is made of these 13 names, and the call of any of them never   *)
(* ends in the unknown-tool failure.                                       *)
(***************************************************************************)
ListedNames == { listed[i] : i \in 1..Len(listed) }

C6_ThirteenTools ==
  \A slot \in Slots :
    /\ listed # <<>> => Len(listed) = 13 /\ ListedNames = ExpectedToolSet
    /\ Responding(slot) /\ request[slot].name \in ExpectedToolSet =>
         Text(slot) # ErrorText("Unknown tool: " \o request[slot].name)

(***************************************************************************)
(* C7.  calendar_create_recurring_event with summary and start_date and a  *)
(* frequency outside daily, weekly, monthly, yearly fails with the         *)
(* validation error about the frequency and submits no script; with a      *)
(* frequency inside the set the call does not end in a validation or       *)
(* unknown-tool error.                                                     *)
(***************************************************************************)
Frequencies == { Str("daily"), Str("weekly"), Str("monthly"), Str("yearly") }

RecurringWithSummaryAndStart(slot) ==
  /\ request[slot].name = "calendar_create_recurring_event"
  /\ ~MissingOrEmpty(Args(slot).summary)
  /\ ~MissingOrEmpty(Args(slot).start_date)

C7_FrequencyValidation ==
  \A slot \in Slots :
    Responding(slot) /\ RecurringWithSummaryAndStart(slot) =>
      IF Args(slot).frequency \in Frequencies
        THEN /\ Text(slot) # ErrorText("Unknown tool: " \o request[slot].name)
             /\ Text(slot) # ErrorText("frequency must be: daily, weekly, monthly, or yearly")
        ELSE /\ IsError(response[slot])
             /\ Text(slot) = ErrorText("frequency must be: daily, weekly, monthly, or yearly")
             /\ submitted[slot] = 0

(***************************************************************************)
(* C8.  The list get_events and search return is ordered by non-decreasing *)
(* start instant, and two events with equal start instants keep the order  *)
(* of the script's output.  Events without a start instant are left out of *)
(* the comparison.                                                         *)
(***************************************************************************)
ReturnedEvents(slot) == Text(slot).val.items

HasStart(e) == ~getTime(NewDate(e.startDate)).nan
StartInstant(e) == getTime(NewDate(e.startDate)).n

\* The position of an event in the output of the script.
PrintedAt(slot, e) ==
  CHOOSE k \in 1..Len(adapter[slot].stdout.items) : adapter[slot].stdout.items[k].id = e.id

InOrder(slot, a, b) ==
  /\ StartInstant(a) <= StartInstant(b)
  /\ StartInstant(a) = StartInstant(b) => PrintedAt(slot, a) < PrintedAt(slot, b)

EventListReturned(slot) ==
  /\ Responding(slot)
  /\ request[slot].name \in { "calendar_get_events", "calendar_search" }
  /\ AdapterSucceeded(slot)
  /\ adapter[slot].stdout.kind = "array"

C8_SortedStable ==
  \A slot \in Slots :
    EventListReturned(slot) =>
      \A i, j \in 1..Len(ReturnedEvents(slot)) :
        i < j /\ HasStart(ReturnedEvents(slot)[i]) /\ HasStart(ReturnedEvents(slot)[j])
          => InOrder(slot, ReturnedEvents(slot)[i], ReturnedEvents(slot)[j])

(***************************************************************************)
(* C9.  get_events and search called without a calendar submit a script    *)
(* that reads the whole calendar collection.                               *)
(***************************************************************************)
C9_AllCalendarsWhenAbsent ==
  \A slot \in Slots :
    /\ request[slot].name \in { "calendar_get_events", "calendar_search" }
    /\ Args(slot).calendar = Undefined
    /\ script[slot] # NoScript
    => TargetsAllCalendars(script[slot])

(***************************************************************************)
(* C10.  A run that fails with the authorization signal is reported with   *)
(* the fixed message about granting calendar access; a run that fails in   *)
(* any other way (lookup miss, timeout, oversized output, host error) is   *)
(* reported with its own message, unchanged.  The message is read where    *)
(* the tool reports it: the text of the error envelope, or the error field *)
(* of the result of create, update and delete.  check_permissions reports  *)
(* no message.                                                             *)
(***************************************************************************)
ReportedMessage(slot) ==
  IF IsError(response[slot]) THEN Text(slot).val ELSE "Error: " \o Text(slot).val.fields.error

C10_AuthorizationTranslated ==
  \A slot \in Slots :
    Responding(slot) /\ AdapterFailed(slot) /\ request[slot].name # "calendar_check_permissions" =>
      /\ adapter[slot].class = "AuthorizationDenied" =>
           ReportedMessage(slot) = "Error: " \o AccessDeniedMessage
      /\ adapter[slot].class # "AuthorizationDenied" =>
           ReportedMessage(slot) = "Error: " \o Join(adapter[slot].message)

(***************************************************************************)
(* C11.  check_permissions never raises: whatever the outcome of the probe *)
(* script, the answer is a status whose calendar flag is true exactly when *)
(* the probe succeeded, with one diagnostic ("accessible" on success,      *)
(* "NOT accessible" on any failure), in an envelope without the error      *)
(* flag.                                                                   *)
(***************************************************************************)
C11_PermissionsNeverRaise ==
  \A slot \in Slots :
    Responding(slot) /\ request[slot].name = "calendar_check_permissions" =>
      /\ ~IsError(response[slot])
      /\ Text(slot).fmt = "json"
      /\ Text(slot).val.fields.calendar = AdapterSucceeded(slot)
      /\ Text(slot).val.fields.details =
           IF AdapterSucceeded(slot)
             THEN << "Calendar: accessible" >>
             ELSE << "Calendar: NOT accessible (grant Calendar permission in System Settings)" >>

\* The probe timed out and the status says so without the error flag.
C11_Witness ==
  \E slot \in Slots :
    /\ Responding(slot)
    /\ request[slot].name = "calendar_check_permissions"
    /\ AdapterFailed(slot)
    /\ adapter[slot].class = "Timeout"
    /\ ~IsError(response[slot])
    /\ Text(slot).val.fields.calendar = FALSE

(***************************************************************************)
(* C12.  update_event with an event id and a calendar and none of summary, *)
(* start_date, end_date, description, location, all_day reports the        *)
(* failure "No updates provided" and submits no script.                    *)
(***************************************************************************)
NoUpdatableField(slot) ==
  /\ Args(slot).summary = Undefined
  /\ Args(slot).start_date = Undefined
  /\ Args(slot).end_date = Undefined
  /\ Args(slot).description = Undefined
  /\ Args(slot).location = Undefined
  /\ Args(slot).all_day = Undefined

C12_NoUpdatesProvided ==
  \A slot \in Slots :
    /\ request[slot].name = "calendar_update_event"
    /\ ~MissingRequired(slot)
    /\ NoUpdatableField(slot)
    => /\ phase[slot] # "Executing"
       /\ submitted[slot] = 0
       /\ script[slot] = NoScript
       /\ Responding(slot) =>
            /\ Text(slot).fmt = "json"
            /\ Text(slot).val.fields.success = FALSE
            /\ Text(slot).val.fields.error = "No updates provided"

C12_Witness ==
  \E slot \in Slots :
    /\ Responding(slot)
    /\ request[slot].name = "calendar_update_event"
    /\ Args(slot).event_id = Str("event-1")
    /\ Args(slot).calendar = Str("Work")
    /\ NoUpdatableField(slot)
    /\ submitted[slot] = 0
    /\ Text(slot).val.fields.error = "No updates provided"

(***************************************************************************)
(* C13.  A successful update_event sets exactly the fields supplied in the *)
(* call on the matched event; the fields of that event that were not       *)
(* supplied, and every other event, are left as they were.  The store the  *)
(* process of the call left is compared with the store it found, no other  *)
(* process having changed the store while it ran.                          *)
(***************************************************************************)
UpdateSucceeded(slot) ==
  /\ Responding(slot)
  /\ request[slot].name = "calendar_update_event"
  /\ ~IsError(response[slot])
  /\ Text(slot).val.fields.success

\* The position, in the store the call found, of the event the call names.
HasId(slot, c, i) == before[slot][c][i].uid = Args(slot).event_id.v

MatchedAt(slot) ==
  IF \E i \in 1..Len(before[slot][Args(slot).calendar.v]) : HasId(slot, Args(slot).calendar.v, i)
    THEN CHOOSE i \in 1..Len(before[slot][Args(slot).calendar.v]) :
           /\ HasId(slot, Args(slot).calendar.v, i)
           /\ \A j \in 1..Len(before[slot][Args(slot).calendar.v]) : HasId(slot, Args(slot).calendar.v, j) => i <= j
    ELSE 0

Supplied(x) == x # Undefined

\* The field of the event after the call: the supplied value, or the value before.
FieldSet(after, prior, x, value) == after = (IF Supplied(x) THEN value ELSE prior)

DateSet(after, prior, x) ==
  IF Supplied(x) THEN NewDate(x.v).valid /\ after = NewDate(x.v).time ELSE after = prior

EventUpdated(slot, after, prior) ==
  /\ FieldSet(after.summary, prior.summary, Args(slot).summary, Args(slot).summary.v)
  /\ FieldSet(after.description, prior.description, Args(slot).description, Args(slot).description.v)
  /\ FieldSet(after.location, prior.location, Args(slot).location, Args(slot).location.v)
  /\ FieldSet(after.allDay, prior.allDay, Args(slot).all_day, Args(slot).all_day.v)
  /\ DateSet(after.startDate, prior.startDate, Args(slot).start_date)
  /\ DateSet(after.endDate, prior.endDate, Args(slot).end_date)
  /\ after.uid = prior.uid
  /\ after.url = prior.url
  /\ after.status = prior.status

OthersUnchanged(slot, cal, i) ==
  /\ DOMAIN effect[slot] = DOMAIN before[slot]
  /\ \A c \in DOMAIN before[slot] :
       /\ Len(effect[slot][c]) = Len(before[slot][c])
       /\ \A j \in 1..Len(before[slot][c]) : c # cal \/ j # i => effect[slot][c][j] = before[slot][c][j]

C13_UpdateSetsSuppliedFields ==
  \A slot \in Slots :
    UpdateSucceeded(slot) /\ alone[slot] =>
      /\ MatchedAt(slot) # 0
      /\ EventUpdated(slot, effect[slot][Args(slot).calendar.v][MatchedAt(slot)], before[slot][Args(slot).calendar.v][MatchedAt(slot)])
      /\ OthersUnchanged(slot, Args(slot).calendar.v, MatchedAt(slot))

(***************************************************************************)
(* C14.  update_event and delete_event act on the first event of the named *)
(* calendar whose identifier is the given one, and on nothing else.  Step  *)
(* by step, whatever the other processes do between the steps: the process *)
(* of the call never changes another calendar, an event with the same      *)
(* identifier among them included; its lookup takes the first event of the *)
(* named calendar with the identifier, as the calendar is then, and        *)
(* changes nothing; when the calendar has no such event the process ends   *)
(* there with a failure; each later step changes, or deletes, the event    *)
(* the lookup took and no other.  And on the whole, when no other process  *)
(* changed the store meanwhile, the store the process left differs from    *)
(* the store it found in that event only, and is the same when the named   *)
(* calendar had no event with the identifier, the call reporting failure.  *)
(***************************************************************************)
NamedCalendar(slot) == Args(slot).calendar.v

Without(events, i) == SubSeq(events, 1, i - 1) \o SubSeq(events, i + 1, Len(events))

Reported(slot) == Text(slot).val.fields

\* The position of the first event with the identifier, or 0.
FirstAt(events, id) ==
  IF \E i \in 1..Len(events) : events[i].uid = id
    THEN CHOOSE i \in 1..Len(events) :
           events[i].uid = id /\ \A j \in 1..Len(events) : events[j].uid = id => i <= j
    ELSE 0

\* The position of the event a reference denotes, or 0.
At(events, ref) ==
  IF \E i \in 1..Len(events) : events[i].key = ref
    THEN CHOOSE i \in 1..Len(events) : events[i].key = ref
    ELSE 0

\* The osascript process of an update_event or delete_event call takes a step.
EditSteps(slot) ==
  /\ request[slot].name \in { "calendar_update_event", "calendar_delete_event" }
  /\ process[slot] = "Running"
  /\ osascript'[slot] # osascript[slot]

\* The lookup `first event of theCal whose uid is ...`, the first event with
\* the identifier being the i-th of the calendar.
LooksUp(slot, cal, i) ==
  /\ store' = store
  /\ IF i = 0 THEN process'[slot] = "Ended" /\ ~adapter'[slot].ok
     ELSE process'[slot] = "Running" => osascript'[slot].theEvent = store[cal][i].key

\* A step that changes the store changes or deletes the event theEvent
\* refers to, the i-th of the calendar.
ActsOnTheEvent(slot, cal, i) ==
  /\ osascript[slot].theEvent # ""
  /\ i # 0
  /\ IF request[slot].name = "calendar_update_event"
       THEN /\ Len(store'[cal]) = Len(store[cal])
            /\ \A j \in 1..Len(store[cal]) : j # i => store'[cal][j] = store[cal][j]
            /\ store'[cal][i].key = store[cal][i].key
            /\ store'[cal][i].uid = store[cal][i].uid
       ELSE store'[cal] = Without(store[cal], i)

EditStep(slot, cal) ==
  /\ DOMAIN store' = DOMAIN store
  /\ \A c \in DOMAIN store : c # cal => store'[c] = store[c]
  /\ osascript[slot].at = "theEvent" =>
       LooksUp(slot, cal, FirstAt(store[cal], Args(slot).event_id.v))
  /\ osascript[slot].at # "theEvent" /\ process'[slot] = "Running" =>
       osascript'[slot].theEvent = osascript[slot].theEvent
  /\ store' # store => ActsOnTheEvent(slot, cal, At(store[cal], osascript[slot].theEvent))

ActsOnFirstMatch(slot, i) ==
  /\ \A c \in DOMAIN before[slot] : c # NamedCalendar(slot) => effect[slot][c] = before[slot][c]
  /\ DOMAIN effect[slot] = DOMAIN before[slot]
  /\ i = 0 => ~Reported(slot).success /\ effect[slot] = before[slot]
  /\ request[slot].name = "calendar_update_event" =>
       /\ Len(effect[slot][NamedCalendar(slot)]) = Len(before[slot][NamedCalendar(slot)])
       /\ \A j \in 1..Len(before[slot][NamedCalendar(slot)]) :
            j # i => effect[slot][NamedCalendar(slot)][j] = before[slot][NamedCalendar(slot)][j]
  /\ request[slot].name = "calendar_delete_event" =>
       /\ effect[slot][NamedCalendar(slot)] \in
            { before[slot][NamedCalendar(slot)], Without(before[slot][NamedCalendar(slot)], i) }
       /\ Reported(slot).success =>
            effect[slot][NamedCalendar(slot)] = Without(before[slot][NamedCalendar(slot)], i)

EditAnswered(slot) ==
  /\ Responding(slot)
  /\ request[slot].name \in { "calendar_update_event", "calendar_delete_event" }
  /\ submitted[slot] = 1

C14_FirstMatchInNamedCalendar ==
  /\ [](\A slot \in Slots :
          EditAnswered(slot) /\ alone[slot] => ActsOnFirstMatch(slot, MatchedAt(slot)))
  /\ [][\A slot \in Slots : EditSteps(slot) => EditStep(slot, NamedCalendar(slot))]_vars

\* event-1 deleted from a Work calendar that held it twice, another process
\* having changed the store meanwhile: the first of the two is gone, the
\* second one is still there.
C14_Witness ==
  \E slot \in Slots :
    /\ Responding(slot)
    /\ request[slot].name = "calendar_delete_event"
    /\ ~MissingRequired(slot)
    /\ before[slot] = DupStore
    /\ ~alone[slot]
    /\ Reported(slot).success
    /\ At(effect[slot]["Work"], "event-1") = 0
    /\ At(effect[slot]["Work"], "event-1 (2)") # 0
    /\ effect[slot]["Work"][At(effect[slot]["Work"], "event-1 (2)")].summary = "Copy"

(***************************************************************************)
(* C15.  search returns events whose summary, description or location      *)
(* contains the query, letter case ignored, and no others, up to the limit *)
(* (50 by default): each event it returns holds the query in one of the    *)
(* three fields it returns for it, whatever the other processes do while   *)
(* the script reads.  When no other process changed the store meanwhile,   *)
(* the events returned are exactly the events of the calendars read whose  *)
(* start lies in the window now .. now + 365 days and that hold the query, *)
(* up to the limit in enumeration order.  now is the clock as the call     *)
(* reads it: once for the start of the window, then once for its end.      *)
(***************************************************************************)
ContainsIgnoringCase(text, query) ==
  Includes(scriptToLowerCase(text), scriptToLowerCase(query))

Matching(slot, e) ==
  /\ e.startDate >= FirstReading(slot)
  /\ e.startDate <= LastReading(slot) + 365 * 86400
  /\ \/ ContainsIgnoringCase(e.summary, Args(slot).query.v)
     \/ ContainsIgnoringCase(e.description, Args(slot).query.v)
     \/ ContainsIgnoringCase(e.location, Args(slot).query.v)

SearchedCalendars(slot) == IF Truthy(Args(slot).calendar) THEN << Args(slot).calendar.v >> ELSE CalendarNames

\* The matching events in enumeration order, as pairs of calendar and identifier.
MatchingOf(slot, calName) ==
  LET refs == [ i \in 1..Len(before[slot][calName]) |->
                  [cal |-> calName, event |-> before[slot][calName][i]] ]
  IN SelectSeq(refs, LAMBDA x : Matching(slot, x.event))

MatchingInOrder(slot) ==
  IF Len(SearchedCalendars(slot)) = 1 THEN MatchingOf(slot, SearchedCalendars(slot)[1])
  ELSE MatchingOf(slot, SearchedCalendars(slot)[1]) \o MatchingOf(slot, SearchedCalendars(slot)[2])

SearchLimit(slot) == IF Supplied(Args(slot).limit) THEN Args(slot).limit.v ELSE 50

Expected(slot) ==
  { [calendar |-> MatchingInOrder(slot)[i].cal, id |-> MatchingInOrder(slot)[i].event.uid] :
      i \in { k \in 1..Len(MatchingInOrder(slot)) : k <= SearchLimit(slot) } }

Returned(slot) ==
  { [calendar |-> Text(slot).val.items[i].calendar, id |-> Text(slot).val.items[i].id] :
      i \in 1..Len(Text(slot).val.items) }

\* The call has answered the events its script printed.
SearchAnswered(slot) ==
  /\ Responding(slot)
  /\ request[slot].name = "calendar_search"
  /\ AdapterSucceeded(slot)
  /\ adapter[slot].stdout.kind = "array"

\* The returned event holds the query in a field it was returned with.
HoldsQuery(slot, item) ==
  \/ ContainsIgnoringCase(item.summary, Args(slot).query.v)
  \/ ContainsIgnoringCase(item.description, Args(slot).query.v)
  \/ ContainsIgnoringCase(item.location, Args(slot).query.v)

C15_SearchMatches ==
  \A slot \in Slots :
    SearchAnswered(slot) =>
      /\ ~IsError(response[slot])
      /\ \A i \in 1..Len(Text(slot).val.items) : HoldsQuery(slot, Text(slot).val.items[i])
      /\ Len(Text(slot).val.items) <= SearchLimit(slot)
      /\ alone[slot] =>
           /\ Returned(slot) = Expected(slot)
           /\ Len(Text(slot).val.items) = Cardinality(Expected(slot))

\* "Meeting" finds event-1 by its summary, event-3 by its location and the
\* event-1 of Personal by its description; event-2 and event-4 are left out.
C15_Witness ==
  \E slot \in Slots :
    /\ SearchAnswered(slot)
    /\ alone[slot]
    /\ before[slot] = DefaultStore
    /\ Args(slot).query = Str("Meeting")
    /\ Args(slot).calendar = Undefined
    /\ Args(slot).limit = Undefined
    /\ request[slot].clock = << 1736935200, 1736935201 >>
    /\ Returned(slot) = { [calendar |-> "Work", id |-> "event-1"],
                    [calendar |-> "Work", id |-> "event-3"],
                    [calendar |-> "Personal", id |-> "event-1"] }

(***************************************************************************)
(* C16.  get_events reads from now when no start_date is given, up to      *)
(* now + 30 days when no end_date is given, and at most 100 events when no *)
(* limit is given; each argument that is given is used as given.  now is   *)
(* the clock as the call reads it for the default: the first reading for   *)
(* the start, the reading after it for the end.                            *)
(***************************************************************************)
GivenOr(x, default) == IF Truthy(x) THEN KnownDates[x.v] ELSE default

GetEventsSubmitted(slot) ==
  /\ request[slot].name = "calendar_get_events"
  /\ script[slot] # NoScript

C16_GetEventsDefaults ==
  \A slot \in Slots :
    GetEventsSubmitted(slot) =>
      /\ script[slot].op = "getEvents"
      /\ dateLiteral(script[slot].startDate) = GivenOr(Args(slot).start_date, FirstReading(slot))
      /\ dateLiteral(script[slot].endDate) = GivenOr(Args(slot).end_date, LastReading(slot) + 30 * 86400)
      /\ script[slot].limit = (IF Supplied(Args(slot).limit) THEN Args(slot).limit.v ELSE 100)

\* get_events without arguments, its script submitted: the clock has moved
\* to the next second between the two readings.
C16_Witness ==
  \E slot \in Slots :
    /\ phase[slot] = "Executing"
    /\ request[slot].name = "calendar_get_events"
    /\ Args(slot).start_date = Undefined
    /\ Args(slot).end_date = Undefined
    /\ Args(slot).limit = Undefined
    /\ script[slot].limit = 100
    /\ LastReading(slot) = FirstReading(slot) + 1
    /\ dateLiteral(script[slot].startDate) = FirstReading(slot)
    /\ dateLiteral(script[slot].endDate) = FirstReading(slot) + 1 + 30 * 86400

(***************************************************************************)
(* C17.  create_event without an end date creates the event with the end   *)
(* one hour after the start when all_day is false or absent, and 24 hours  *)
(* after the start when all_day is true; a valid end date that is given is *)
(* used as given.                                                          *)
(***************************************************************************)
CreateSubmitted(slot) ==
  /\ request[slot].name = "calendar_create_event"
  /\ script[slot] # NoScript

DefaultEnd(slot, start) ==
  start + (IF Args(slot).all_day = Bool(TRUE) THEN 24 * 3600 ELSE 3600)

C17_CreateDefaultEnd ==
  \A slot \in Slots :
    CreateSubmitted(slot) =>
      /\ script[slot].op = "createEvent"
      /\ dateLiteral(script[slot].startDate) = KnownDates[Args(slot).start_date.v]
      /\ dateLiteral(script[slot].endDate) =
           GivenOr(Args(slot).end_date, DefaultEnd(slot, KnownDates[Args(slot).start_date.v]))
      /\ script[slot].allDay = (Args(slot).all_day = Bool(TRUE))

\* An all-day event without an end date: the script ends it a day after its start.
C17_Witness ==
  \E slot \in Slots :
    /\ phase[slot] = "Executing"
    /\ request[slot].name = "calendar_create_event"
    /\ Args(slot).end_date = Undefined
    /\ Args(slot).all_day = Bool(TRUE)
    /\ dateLiteral(script[slot].startDate) = 1736935200
    /\ dateLiteral(script[slot].endDate) = 1736935200 + 86400

(***************************************************************************)
(* C18.  get_upcoming without days reads the window now .. now + 7 days,   *)
(* as with days = 7, and with days = N the window now .. now + N days.     *)
(***************************************************************************)
DaysAsked(slot) == IF Supplied(Args(slot).days) THEN Args(slot).days.v ELSE 7

C18_UpcomingWindow ==
  \A slot \in Slots :
    /\ request[slot].name = "calendar_get_upcoming"
    /\ script[slot] # NoScript
    => /\ dateLiteral(script[slot].startDate) = FirstReading(slot)
       /\ dateLiteral(script[slot].endDate) = FirstReading(slot) + DaysAsked(slot) * 86400

(***************************************************************************)
(* C19.  A tool call submits at most one script, and a run that has failed *)
(* or timed out is not submitted again during the call, whatever the kind  *)
(* of the failure.                                                         *)
(***************************************************************************)
C19_NoRetry ==
  \A slot \in Slots :
    /\ submitted[slot] <= 1
    /\ AdapterFailed(slot) => submitted[slot] = 1

\* The run was denied and the call has answered after its one submission.
C19_Witness ==
  \E slot \in Slots :
    /\ Responding(slot)
    /\ AdapterFailed(slot)
    /\ adapter[slot].class = "AuthorizationDenied"
    /\ submitted[slot] = 1

(***************************************************************************)
(* C20.  A call goes from validation to the run of its script to its       *)
(* response and never back.  The handler validates in its first turn: a    *)
(* call whose required arguments are missing or whose tool is unknown is   *)
(* left Validating, without a script, until the handler resumes with the   *)
(* failure and answers it, and it is never Executing; a call that passes   *)
(* has started its osascript process by the end of that turn and is        *)
(* Executing until the process has ended and the handler resumes.  The     *)
(* response is one envelope, made once and handed over once.  And, the     *)
(* handler being resumed when it can and the process being killed by the   *)
(* timeout of execAsync if it has not ended before, every call gets its    *)
(* response.                                                               *)
(***************************************************************************)
\* The steps of the phase of one call.  While the call waits, the steps of
\* the other calls and of the osascript processes leave it where it is.
PhaseSteps ==
  { <<"Idle", "Idle">>, <<"Idle", "Validating">>, <<"Idle", "Executing">>,
    <<"Validating", "Validating">>, <<"Validating", "Responding">>,
    <<"Executing", "Executing">>, <<"Executing", "Responding">>,
    <<"Responding", "Responding">>, <<"Responding", "Idle">> }

FailsValidation(req) ==
  \/ req.name \notin ToolSet
  \/ /\ req.name = "calendar_create_event"
     /\ ~Truthy(argsOrEmpty(req.args).summary) \/ ~Truthy(argsOrEmpty(req.args).start_date)
  \/ /\ req.name \in { "calendar_update_event", "calendar_delete_event" }
     /\ ~Truthy(argsOrEmpty(req.args).event_id) \/ ~Truthy(argsOrEmpty(req.args).calendar)
  \/ /\ req.name = "calendar_search"
     /\ ~Truthy(argsOrEmpty(req.args).query)

PhaseStep(slot) ==
  /\ <<phase[slot], phase'[slot]>> \in PhaseSteps
  /\ phase[slot] = "Idle" /\ phase'[slot] # "Idle" /\ FailsValidation(request'[slot]) =>
       phase'[slot] = "Validating" /\ submitted'[slot] = 0 /\ process'[slot] = "None"
  /\ phase[slot] = "Idle" /\ phase'[slot] = "Executing" =>
       submitted'[slot] = 1 /\ process'[slot] = "Running"
  /\ phase[slot] = "Validating" /\ phase'[slot] = "Validating" =>
       /\ request'[slot] = request[slot]
       /\ submitted'[slot] = 0
       /\ script'[slot] = NoScript
  /\ phase[slot] = "Validating" /\ phase'[slot] = "Responding" /\ FailsValidation(request[slot]) =>
       IsError(response'[slot]) /\ submitted'[slot] = 0
  /\ phase[slot] = "Executing" /\ phase'[slot] = "Executing" =>
       /\ request'[slot] = request[slot]
       /\ script'[slot] = script[slot]
       /\ submitted'[slot] = submitted[slot]
  /\ phase[slot] = "Executing" /\ phase'[slot] = "Responding" =>
       process[slot] = "Ended" /\ adapter[slot].settled
  /\ phase'[slot] = "Responding" => IsEnvelope(response'[slot])
  /\ phase'[slot] # "Responding" => response'[slot] = NoResponse
  /\ phase[slot] = "Responding" /\ phase'[slot] = "Responding" => response'[slot] = response[slot]
  /\ phase[slot] = "Responding" /\ phase'[slot] = "Idle" => request'[slot] = NoRequest

Waiting(slot) == phase[slot] \in { "Validating", "Executing" }

C20_PhaseOrder ==
  /\ [][\A slot \in Slots : PhaseStep(slot)]_vars
  /\ \A slot \in Slots : Waiting(slot) ~> Responding(slot)

\* A search that passed validation has answered what its script printed,
\* while a call that failed validation waits for its handler to resume.
C20_Witness ==
  \E slot, other \in Slots :
    /\ Responding(slot)
    /\ request[slot].name = "calendar_search"
    /\ submitted[slot] = 1
    /\ AdapterSucceeded(slot)
    /\ ~IsError(response[slot])
    /\ phase[other] = "Validating"
    /\ FailsValidation(request[other])

(***************************************************************************)
(* C21.  In every script an operation submits, each string the caller      *)
(* supplied (calendar, event id, summary, description, location, url,      *)
(* query) stands in its escaped form, with quotes, backslashes and line    *)
(* feeds escaped, and each date is the output of the date formatter.       *)
(***************************************************************************)
\* The escaped form of a string: \\ for a backslash, \" for a quote and \n
\* for a line feed.
EscapedForm(s) ==
  Join(replaceAll(replaceAll(replaceAll(Pieces(s), "\\", << "\\", "\\" >>),
                             "\"", << "\\", "\"" >>),
                  "\n", << "\\", "n" >>))

FormatterOutputs == { LocaleTable[t] : t \in ScriptInstants }

Interpolation(x, written) == [given |-> x.v, written |-> written]

LinesWritten(lines, prop, x) ==
  { Interpolation(x, lines[i].to) : i \in { j \in 1..Len(lines) : lines[j].set = prop } }

\* The strings of the request that stand in the submitted script, each with
\* the text written for it.
Interpolations(slot) ==
  CASE script[slot].op = "getEvents" /\ request[slot].name = "calendar_get_events" ->
         IF Args(slot).calendar.t = "string"
           THEN { Interpolation(Args(slot).calendar, script[slot].ifCalendar),
                  Interpolation(Args(slot).calendar, script[slot].elseCalendar) }
           ELSE {}
    [] script[slot].op = "createEvent" ->
         { Interpolation(Args(slot).summary, script[slot].summary) }
           \cup (IF script[slot].calendarTarget.named
                   THEN { Interpolation(Args(slot).calendar, script[slot].calendarTarget.name) } ELSE {})
           \cup LinesWritten(script[slot].lines, "description", Args(slot).description)
           \cup LinesWritten(script[slot].lines, "location", Args(slot).location)
           \cup LinesWritten(script[slot].lines, "url", Args(slot).url)
    [] script[slot].op = "updateEvent" ->
         { Interpolation(Args(slot).calendar, script[slot].calendar),
           Interpolation(Args(slot).event_id, script[slot].uid) }
           \cup LinesWritten(script[slot].lines, "summary", Args(slot).summary)
           \cup LinesWritten(script[slot].lines, "description", Args(slot).description)
           \cup LinesWritten(script[slot].lines, "location", Args(slot).location)
    [] script[slot].op = "deleteEvent" ->
         { Interpolation(Args(slot).calendar, script[slot].calendar),
           Interpolation(Args(slot).event_id, script[slot].uid) }
    [] script[slot].op = "searchEvents" ->
         { Interpolation(Str(toLowerCase(Args(slot).query.v)), script[slot].searchQuery) }
           \cup (IF script[slot].targetCals.named
                   THEN { Interpolation(Args(slot).calendar, script[slot].targetCals.name) } ELSE {})
    [] OTHER -> {}

\* The date texts of the submitted script.
DatesWritten(slot) ==
  CASE script[slot].op \in { "getEvents", "createEvent", "searchEvents" } ->
         { script[slot].startDate, script[slot].endDate }
    [] script[slot].op = "updateEvent" ->
         { script[slot].lines[i].to :
             i \in { j \in 1..Len(script[slot].lines) :
                       script[slot].lines[j].set \in { "start date", "end date" } } }
    [] OTHER -> {}

C21_EscapedInScripts ==
  \A slot \in Slots :
    script[slot] # NoScript =>
      /\ \A x \in Interpolations(slot) : x.written = EscapedForm(x.given)
      /\ DatesWritten(slot) \subseteq FormatterOutputs

(***************************************************************************)
(* C22.  The escaped form of every string, between the quotes of a script  *)
(* literal, denotes the string itself: the literal ends at the closing     *)
(* quote of the template and reads back as the original characters.        *)
(***************************************************************************)
\* The interpolations that went through the escaping.
EscapedInterpolations(slot) ==
  IF script[slot].op = "getEvents"
    THEN IF request[slot].name = "calendar_get_events" /\ Args(slot).calendar.t = "string"
           THEN { Interpolation(Args(slot).calendar, script[slot].elseCalendar) } ELSE {}
    ELSE Interpolations(slot)

C22_LiteralDenotesString ==
  \A slot \in Slots :
    script[slot] # NoScript =>
      \A x \in EscapedInterpolations(slot) :
        closedLiteral(x.written) /\ literalString(x.written) = x.given

(***************************************************************************)
(* C23.  When the run of a list-shaped tool (get_calendars, get_events,    *)
(* search, get_today, get_upcoming) succeeds with empty output, the        *)
(* response is the empty sequence in a success envelope.                   *)
(***************************************************************************)
EmptyOutput(slot) == AdapterSucceeded(slot) /\ adapter[slot].stdout.kind \in { "empty", "blank" }

C23_EmptyOutputIsEmptyList ==
  \A slot \in Slots :
    Responding(slot) /\ request[slot].name \in ListTools5 /\ EmptyOutput(slot) =>
      /\ IsEnvelope(response[slot])
      /\ ~IsError(response[slot])
      /\ Text(slot) = [fmt |-> "json", val |-> JArray(<<>>)]

\* calendar_search answers an output of blanks only with the empty sequence.
C23_Witness ==
  \E slot \in Slots :
    /\ Responding(slot)
    /\ request[slot].name = "calendar_search"
    /\ adapter[slot] = Succeeds(BlankOut)
    /\ Text(slot) = [fmt |-> "json", val |-> JArray(<<>>)]

(***************************************************************************)
(* C24.  When the run of a tool that decodes its output (get_calendars,    *)
(* get_events, search, get_today, get_upcoming) succeeds with output that  *)
(* is not empty and not JSON, the response is a success envelope with the  *)
(* raw text as its result.                                                 *)
(***************************************************************************)
C24_RawTextReturned ==
  \A slot \in Slots :
    Responding(slot) /\ request[slot].name \in ListTools5 /\ AdapterSucceeded(slot)
      /\ adapter[slot].stdout.kind = "text" =>
        /\ IsEnvelope(response[slot])
        /\ ~IsError(response[slot])
        /\ Text(slot) = [fmt |-> "json", val |-> JString(adapter[slot].stdout.text)]

(***************************************************************************)
(* C25.  parseDate returns null for every string that is no date ("",      *)
(* "invalid", "not-a-date") and the instant of an ISO-8601 date or         *)
(* date-time; every caller treats null as a missing or invalid date: no    *)
(* script is built from it and the call is answered.                       *)
(***************************************************************************)
NoDates == { "", "invalid", "not-a-date" }

\* ISO-8601 strings and the instants they name, in interchange form.
IsoDates ==
  { << "2025-01-15", "2025-01-15T00:00:00.000Z" >>,
    << "2025-01-15T10:00:00Z", "2025-01-15T10:00:00.000Z" >>,
    << "2025-01-15T10:00:00.000Z", "2025-01-15T10:00:00.000Z" >>,
    << "2025-02-01T00:00:00Z", "2025-02-01T00:00:00.000Z" >> }

NoDate(x) == x.t = "string" /\ x.v \in NoDates \ { "" }

Result(fields) == [fmt |-> "json", val |-> JObject(fields)]

PassedValidation(slot) == request[slot].name \in ToolSet /\ ~MissingRequired(slot)

NullTreatedAsInvalid(slot) ==
  CASE request[slot].name = "calendar_get_events" /\ (NoDate(Args(slot).start_date) \/ NoDate(Args(slot).end_date)) ->
         script[slot] = NoScript /\ IsError(response[slot]) /\ Text(slot) = ErrorText("Invalid date format")
    [] request[slot].name = "calendar_create_event" /\ PassedValidation(slot) /\ NoDate(Args(slot).start_date) ->
         script[slot] = NoScript /\ ~IsError(response[slot])
           /\ Text(slot) = Result([success |-> FALSE, error |-> "Invalid start date"])
    [] request[slot].name = "calendar_create_event" /\ PassedValidation(slot) /\ NoDate(Args(slot).end_date) ->
         script[slot] = NoScript /\ ~IsError(response[slot])
           /\ Text(slot) = Result([success |-> FALSE, error |-> "Invalid end date"])
    [] request[slot].name = "calendar_update_event" /\ PassedValidation(slot)
         /\ (NoDate(Args(slot).start_date) \/ NoDate(Args(slot).end_date)) ->
         /\ ~IsError(response[slot])
         /\ script[slot] # NoScript =>
              \A i \in 1..Len(script[slot].lines) :
                /\ NoDate(Args(slot).start_date) => script[slot].lines[i].set # "start date"
                /\ NoDate(Args(slot).end_date) => script[slot].lines[i].set # "end date"
    [] OTHER -> TRUE

C25_ParseDateTotal ==
  \A slot \in Slots :
    /\ \A s \in NoDates : parseDate(s) = Null
    /\ \A d \in IsoDates : parseDate(d[1]) # Null /\ toISOString(parseDate(d[1])) = d[2]
    /\ Responding(slot) => IsEnvelope(response[slot]) /\ NullTreatedAsInvalid(slot)

\* update_event with a start date that is no date and a new summary has run
\* its script.
C25_Witness ==
  \E slot \in Slots :
    /\ Responding(slot)
    /\ request[slot].name = "calendar_update_event"
    /\ NoDate(Args(slot).start_date)
    /\ script[slot] # NoScript
    /\ AdapterSucceeded(slot)

(***************************************************************************)
(* C26.  formatISODate returns the empty string for the empty string, for  *)
(* "missing value" and for every string that is no date, and the ISO-8601  *)
(* UTC form with milliseconds for every date; so each startDate and        *)
(* endDate of a returned event list is empty or such a form.               *)
(***************************************************************************)
\* The interchange form of a date the script printed: the script prints the
\* local time to the second, without a zone.
Interchange(printed) ==
  IF printed \in { "", "missing value" } THEN "" ELSE printed \o ".000Z"

DatesOf(events, form(_)) ==
  { [ id |-> events[i].id, calendar |-> events[i].calendar,
      startDate |-> form(events[i].startDate), endDate |-> form(events[i].endDate) ] :
      i \in 1..Len(events) }

AsItIs(text) == text

EventsReturned(slot) ==
  /\ Responding(slot)
  /\ request[slot].name \in EventListTools
  /\ AdapterSucceeded(slot)
  /\ adapter[slot].stdout.kind = "array"

C26_FormatISODate ==
  \A slot \in Slots :
    /\ \A s \in NoDates \cup { "missing value" } : formatISODate(s) = ""
    /\ \A d \in IsoDates : formatISODate(d[1]) = d[2]
    /\ EventsReturned(slot) =>
         /\ Len(ReturnedEvents(slot)) = Len(adapter[slot].stdout.items)
         /\ DatesOf(ReturnedEvents(slot), AsItIs) = DatesOf(adapter[slot].stdout.items, Interchange)

\* A returned list with an event whose start was printed as missing value
\* and an event with a start date.
C26_Witness ==
  \E slot \in Slots :
    /\ EventsReturned(slot)
    /\ \E i, j \in 1..Len(ReturnedEvents(slot)) :
         /\ ReturnedEvents(slot)[i].startDate = ""
         /\ ReturnedEvents(slot)[j].startDate = "2025-01-15T10:00:00.000Z"
    /\ \E k \in 1..Len(adapter[slot].stdout.items) : adapter[slot].stdout.items[k].startDate = "missing value"

(***************************************************************************)
(* C27.  get_events and search return at most limit events, and the limit  *)
(* is applied while the calendars and their events are enumerated, before  *)
(* the sort: when more events match, the result is the first limit matches *)
(* in enumeration order, sorted by start, whether or not they are the      *)
(* earliest.  The number returned and their order hold whatever the other  *)
(* processes do while the script reads; which events are the first matches *)
(* is told on the store the process found, no other process having changed *)
(* the store meanwhile.                                                    *)
(***************************************************************************)
LimitAsked(slot) ==
  IF Supplied(Args(slot).limit) THEN Args(slot).limit.v
  ELSE IF request[slot].name = "calendar_search" THEN 50 ELSE 100

InWindow(slot, e) ==
  /\ e.startDate >= GivenOr(Args(slot).start_date, FirstReading(slot))
  /\ e.startDate <= GivenOr(Args(slot).end_date, LastReading(slot) + 30 * 86400)

InWindowOf(slot, calName) ==
  LET refs == [ i \in 1..Len(before[slot][calName]) |->
                  [cal |-> calName, event |-> before[slot][calName][i]] ]
  IN SelectSeq(refs, LAMBDA x : InWindow(slot, x.event))

\* The events of the window in enumeration order.
InWindowInOrder(slot) ==
  IF Truthy(Args(slot).calendar) THEN InWindowOf(slot, Args(slot).calendar.v)
  ELSE InWindowOf(slot, CalendarNames[1]) \o InWindowOf(slot, CalendarNames[2])

FirstOf(matches, limit) ==
  { [calendar |-> matches[i].cal, id |-> matches[i].event.uid] :
      i \in { k \in 1..Len(matches) : k <= limit } }

\* get_events has answered the events its script printed.
GetAnswered(slot) ==
  /\ Responding(slot)
  /\ request[slot].name = "calendar_get_events"
  /\ AdapterSucceeded(slot)
  /\ adapter[slot].stdout.kind = "array"

SortedByStart(slot) ==
  \A i, j \in 1..Len(ReturnedEvents(slot)) :
    i < j => StartInstant(ReturnedEvents(slot)[i]) <= StartInstant(ReturnedEvents(slot)[j])

C27_LimitBeforeSort ==
  \A slot \in Slots :
    /\ EventListReturned(slot) =>
         Len(ReturnedEvents(slot)) <= LimitAsked(slot) /\ SortedByStart(slot)
    /\ GetAnswered(slot) /\ alone[slot] =>
         Returned(slot) = FirstOf(InWindowInOrder(slot), LimitAsked(slot))
    /\ SearchAnswered(slot) /\ alone[slot] =>
         Returned(slot) = FirstOf(MatchingInOrder(slot), LimitAsked(slot))

\* get_events of all calendars with limit 2: three events are in the window,
\* the two of Work are returned and the earlier one of Personal is left out.
C27_Witness ==
  \E slot \in Slots :
    /\ GetAnswered(slot)
    /\ alone[slot]
    /\ Args(slot).limit = Num(2)
    /\ Len(InWindowInOrder(slot)) = 3
    /\ Returned(slot) = { [calendar |-> "Work", id |-> "event-1"],
                    [calendar |-> "Work", id |-> "event-2"] }
    /\ InWindowInOrder(slot)[3].cal = "Personal"
    /\ \A k \in 1..2 : InWindowInOrder(slot)[3].event.startDate < InWindowInOrder(slot)[k].event.startDate

(***************************************************************************)
(* C28.  When a date argument that is given cannot be parsed, no script is *)
(* submitted: create_event returns a result with success false and the     *)
(* error "Invalid start date" or "Invalid end date", and get_events fails  *)
(* with "Invalid date format".                                             *)
(***************************************************************************)
BadDateGiven(slot) ==
  /\ request[slot].name \in { "calendar_get_events", "calendar_create_event" }
  /\ PassedValidation(slot)
  /\ NoDate(Args(slot).start_date) \/ NoDate(Args(slot).end_date)

C28_BadDateNoScript ==
  \A slot \in Slots :
    BadDateGiven(slot) =>
      /\ phase[slot] # "Executing"
      /\ submitted[slot] = 0
      /\ adapter[slot] = Pending
      /\ Responding(slot) =>
           IF request[slot].name = "calendar_get_events"
             THEN IsError(response[slot]) /\ Text(slot) = ErrorText("Invalid date format")
             ELSE /\ ~IsError(response[slot])
                  /\ Text(slot) = Result([ success |-> FALSE,
                                     error |-> IF NoDate(Args(slot).start_date) THEN "Invalid start date"
                                               ELSE "Invalid end date" ])

\* create_event with a start date and an end date that is no date.
C28_Witness ==
  \E slot \in Slots :
    /\ Responding(slot)
    /\ request[slot].name = "calendar_create_event"
    /\ PassedValidation(slot)
    /\ ~NoDate(Args(slot).start_date)
    /\ NoDate(Args(slot).end_date)
    /\ Text(slot) = Result([success |-> FALSE, error |-> "Invalid end date"])

(***************************************************************************)
(* C29.  update_event drops a start_date or end_date that cannot be        *)
(* parsed: the script has a line for each other field supplied and none    *)
(* for the date dropped; each line, when the application answers it,       *)
(* writes the value supplied to the event the lookup took, whatever the    *)
(* other processes do between the lines; the call reports success and      *)
(* nothing else; and, no other process having changed the store meanwhile, *)
(* the event the process left has the other fields supplied and the date   *)
(* it had.  When nothing else was supplied the call answers "No updates    *)
(* provided" and submits no script.                                        *)
(***************************************************************************)
UnparseableUpdate(slot) ==
  /\ request[slot].name = "calendar_update_event"
  /\ PassedValidation(slot)
  /\ NoDate(Args(slot).start_date) \/ NoDate(Args(slot).end_date)

Parseable(x) == Truthy(x) /\ ~NoDate(x)

SomethingElseSupplied(slot) ==
  \/ Supplied(Args(slot).summary) \/ Supplied(Args(slot).description) \/ Supplied(Args(slot).location)
  \/ Supplied(Args(slot).all_day)
  \/ Parseable(Args(slot).start_date) \/ Parseable(Args(slot).end_date)

DroppedProperties(slot) ==
  (IF NoDate(Args(slot).start_date) THEN { "start date" } ELSE {})
    \cup (IF NoDate(Args(slot).end_date) THEN { "end date" } ELSE {})

DateKeptOrSet(after, prior, x) ==
  IF NoDate(x) THEN after = prior ELSE DateSet(after, prior, x)

RestWritten(slot, after, prior) ==
  /\ FieldSet(after.summary, prior.summary, Args(slot).summary, Args(slot).summary.v)
  /\ FieldSet(after.description, prior.description, Args(slot).description, Args(slot).description.v)
  /\ FieldSet(after.location, prior.location, Args(slot).location, Args(slot).location.v)
  /\ FieldSet(after.allDay, prior.allDay, Args(slot).all_day, Args(slot).all_day.v)
  /\ DateKeptOrSet(after.startDate, prior.startDate, Args(slot).start_date)
  /\ DateKeptOrSet(after.endDate, prior.endDate, Args(slot).end_date)

\* The properties of the other fields supplied.
RemainingProperties(slot) ==
  (IF Supplied(Args(slot).summary) THEN { "summary" } ELSE {})
    \cup (IF Supplied(Args(slot).description) THEN { "description" } ELSE {})
    \cup (IF Supplied(Args(slot).location) THEN { "location" } ELSE {})
    \cup (IF Supplied(Args(slot).all_day) THEN { "allday event" } ELSE {})
    \cup (IF Parseable(Args(slot).start_date) THEN { "start date" } ELSE {})
    \cup (IF Parseable(Args(slot).end_date) THEN { "end date" } ELSE {})

\* The event with the value supplied for the property.
WithSupplied(slot, e, prop) ==
  CASE prop = "summary" -> [e EXCEPT !.summary = Args(slot).summary.v]
    [] prop = "description" -> [e EXCEPT !.description = Args(slot).description.v]
    [] prop = "location" -> [e EXCEPT !.location = Args(slot).location.v]
    [] prop = "allday event" -> [e EXCEPT !.allDay = Args(slot).all_day.v]
    [] prop = "start date" -> [e EXCEPT !.startDate = NewDate(Args(slot).start_date.v).time]
    [] prop = "end date" -> [e EXCEPT !.endDate = NewDate(Args(slot).end_date.v).time]

\* The application has answered a line `set <property> of theEvent to ...`
\* of the script of the call.
LineAnswered(slot) ==
  /\ UnparseableUpdate(slot)
  /\ process[slot] = "Running"
  /\ osascript[slot].at = "line"
  /\ osascript'[slot] # osascript[slot]
  /\ process'[slot] = "Running"

\* The line has written the value supplied to the event theEvent refers
\* to, the i-th of the calendar, and nothing else.
LineWritten(slot, cal, i, prop) ==
  /\ prop \in RemainingProperties(slot)
  /\ i # 0
  /\ store' = [store EXCEPT ![cal][i] = WithSupplied(slot, store[cal][i], prop)]

\* The process ends with success only from its return, after its last line.
EndsAfterLastLine(slot) ==
  /\ UnparseableUpdate(slot)
  /\ process[slot] = "Running"
  /\ process'[slot] = "Ended"
  /\ adapter'[slot].ok
  => osascript[slot].at = "return"

\* The lines are answered one after the other, the return after the last.
LinesInOrder(slot) ==
  /\ UnparseableUpdate(slot)
  /\ process[slot] = "Running"
  /\ process'[slot] = "Running"
  /\ osascript'[slot] # osascript[slot]
  /\ osascript[slot].at \in { "theEvent", "line" }
  => IF osascript[slot].n < Len(script[slot].lines)
       THEN osascript'[slot].at = "line" /\ osascript'[slot].n = osascript[slot].n + 1
       ELSE osascript'[slot].at = "return"

UnparseableDropped(slot) ==
  IF SomethingElseSupplied(slot)
    THEN /\ phase[slot] # "Idle" => submitted[slot] = 1
         /\ script[slot] # NoScript =>
              /\ { script[slot].lines[i].set : i \in 1..Len(script[slot].lines) }
                   = RemainingProperties(slot)
              /\ \A i \in 1..Len(script[slot].lines) :
                   script[slot].lines[i].set \notin DroppedProperties(slot)
         /\ Responding(slot) /\ AdapterSucceeded(slot) =>
              /\ ~IsError(response[slot])
              /\ Text(slot) = Result([success |-> TRUE])
              /\ alone[slot] =>
                   /\ MatchedAt(slot) # 0
                   /\ RestWritten(slot, effect[slot][Args(slot).calendar.v][MatchedAt(slot)],
                                  before[slot][Args(slot).calendar.v][MatchedAt(slot)])
    ELSE /\ phase[slot] # "Executing"
         /\ submitted[slot] = 0
         /\ script[slot] = NoScript
         /\ Responding(slot) =>
              ~IsError(response[slot])
                /\ Text(slot) = Result([success |-> FALSE, error |-> "No updates provided"])

C29_UnparseableDateDropped ==
  /\ [](\A slot \in Slots : UnparseableUpdate(slot) => UnparseableDropped(slot))
  /\ [][\A slot \in Slots :
         /\ LineAnswered(slot) =>
              LineWritten(slot, Args(slot).calendar.v,
                          At(store[Args(slot).calendar.v], osascript[slot].theEvent),
                          script[slot].lines[osascript[slot].n].set)
         /\ EndsAfterLastLine(slot)
         /\ LinesInOrder(slot)]_vars

\* An update with a new summary and a start date that is no date has
\* written the summary and left the start date as it was, another process
\* having changed the store while it ran.
C29_Witness ==
  \E slot \in Slots :
    /\ Responding(slot)
    /\ UnparseableUpdate(slot)
    /\ AdapterSucceeded(slot)
    /\ ~alone[slot]
    /\ Args(slot).summary = Str("Team Meeting")
    /\ Args(slot).start_date = Str("not-a-date")
    /\ before[slot] = DupStore
    /\ effect[slot]["Work"][1].summary = "Team Meeting"
    /\ effect[slot]["Work"][1].startDate = before[slot]["Work"][1].startDate
    /\ Text(slot) = Result([success |-> TRUE])

(***************************************************************************)
(* C30.  The command line of every script hands the script to osascript as *)
(* one argument between apostrophes whose value is the script text: each   *)
(* apostrophe of the script is written as the closing apostrophe, an       *)
(* escaped apostrophe and an opening apostrophe, so the quoting is never   *)
(* ended by the script and no text of it reaches the shell unquoted.       *)
(***************************************************************************)
Count(ch, pieces) == Cardinality({ i \in 1..Len(pieces) : pieces[i] = ch })

CommandLine(slot) == commandLine(scriptText(script[slot]))

C30_OneQuotedArgument ==
  \A slot \in Slots :
    script[slot] # NoScript =>
      /\ shellWords(CommandLine(slot)).whole
      /\ shellWords(CommandLine(slot)).words =
           << "osascript", "-e", Join(scriptText(script[slot])) >>
      /\ Count("'", CommandLine(slot)) = 2 + 3 * Count("'", scriptText(script[slot]))
      /\ Count("\\", CommandLine(slot)) =
           Count("\\", scriptText(script[slot])) + Count("'", scriptText(script[slot]))
      /\ adapter[slot] # commandFailed(script[slot], "Shell")

\* A create_event script that holds an apostrophe of the caller has run,
\* and so has a delete_event script with one in its event id.
C30_Witness ==
  \E slot, other \in Slots :
    /\ Responding(slot)
    /\ script[slot] # NoScript
    /\ script[slot].op = "createEvent"
    /\ Args(slot).description = Str("Bob's party")
    /\ Count("'", scriptText(script[slot])) = 1
    /\ AdapterSucceeded(slot)
    /\ Responding(other)
    /\ script[other] # NoScript
    /\ script[other].op = "deleteEvent"
    /\ Args(other).event_id = Str("it's")
    /\ Count("'", scriptText(script[other])) = 1
    /\ Count("'", CommandLine(other)) = 5
    /\ adapter[other].settled

====
